---- MODULE Spec2Model ----
(***************************************************************************)
(* Relevancy scoring, ranking and search orchestration of the Bulgarian    *)
(* legal search agent (relevancy_scoring.py, enhanced_legal_tools.py).     *)
(*                                                                         *)
(* Representation.                                                         *)
(*  - A text is a sequence of words (the result of str.split()); a word is *)
(*    a TLA+ string.  Cyrillic is transliterated letter by letter, so the  *)
(*    substring relations between words are those of the originals.        *)
(*  - A float is an integer number of thousandths (SCALE); math.log is the *)
(*    table Ln of rounded values.  Integer division rounds down.           *)
(***************************************************************************)
EXTENDS Integers, Sequences, FiniteSets, TLC

\* ------------------------------------------------------------------------
\* Fixed-point arithmetic
\* ------------------------------------------------------------------------

\* one unit of a float field: 1.0 is SCALE thousandths
SCALE == 1000

Min(a, b) == IF a <= b THEN a ELSE b

Max(a, b) == IF a >= b THEN a ELSE b

\* a * b and a / b of two fixed-point numbers (b > 0 in Div)
Mul(a, b) == (a * b) \div SCALE

Div(a, b) == (a * SCALE) \div b

\* math.log(n) * SCALE for the integers 1..400, rounded
LnTable ==
   << 0, 693, 1099, 1386, 1609, 1792, 1946, 2079, 2197, 2303, 2398, 2485, 2565, 2639, 2708, 2773, 2833, 2890, 2944, 2996,
      3045, 3091, 3135, 3178, 3219, 3258, 3296, 3332, 3367, 3401, 3434, 3466, 3497, 3526, 3555, 3584, 3611, 3638, 3664, 3689,
      3714, 3738, 3761, 3784, 3807, 3829, 3850, 3871, 3892, 3912, 3932, 3951, 3970, 3989, 4007, 4025, 4043, 4060, 4078, 4094,
      4111, 4127, 4143, 4159, 4174, 4190, 4205, 4220, 4234, 4248, 4263, 4277, 4290, 4304, 4317, 4331, 4344, 4357, 4369, 4382,
      4394, 4407, 4419, 4431, 4443, 4454, 4466, 4477, 4489, 4500, 4511, 4522, 4533, 4543, 4554, 4564, 4575, 4585, 4595, 4605,
      4615, 4625, 4635, 4644, 4654, 4663, 4673, 4682, 4691, 4700, 4710, 4718, 4727, 4736, 4745, 4754, 4762, 4771, 4779, 4787,
      4796, 4804, 4812, 4820, 4828, 4836, 4844, 4852, 4860, 4868, 4875, 4883, 4890, 4898, 4905, 4913, 4920, 4927, 4934, 4942,
      4949, 4956, 4963, 4970, 4977, 4984, 4990, 4997, 5004, 5011, 5017, 5024, 5030, 5037, 5043, 5050, 5056, 5063, 5069, 5075,
      5081, 5088, 5094, 5100, 5106, 5112, 5118, 5124, 5130, 5136, 5142, 5147, 5153, 5159, 5165, 5170, 5176, 5182, 5187, 5193,
      5198, 5204, 5209, 5215, 5220, 5226, 5231, 5236, 5242, 5247, 5252, 5257, 5263, 5268, 5273, 5278, 5283, 5288, 5293, 5298,
      5303, 5308, 5313, 5318, 5323, 5328, 5333, 5338, 5342, 5347, 5352, 5357, 5361, 5366, 5371, 5375, 5380, 5384, 5389, 5394,
      5398, 5403, 5407, 5412, 5416, 5421, 5425, 5429, 5434, 5438, 5442, 5447, 5451, 5455, 5460, 5464, 5468, 5472, 5476, 5481,
      5485, 5489, 5493, 5497, 5501, 5505, 5509, 5513, 5517, 5521, 5525, 5529, 5533, 5537, 5541, 5545, 5549, 5553, 5557, 5561,
      5565, 5568, 5572, 5576, 5580, 5583, 5587, 5591, 5595, 5598, 5602, 5606, 5609, 5613, 5617, 5620, 5624, 5628, 5631, 5635,
      5638, 5642, 5645, 5649, 5652, 5656, 5659, 5663, 5666, 5670, 5673, 5677, 5680, 5684, 5687, 5690, 5694, 5697, 5700, 5704,
      5707, 5710, 5714, 5717, 5720, 5724, 5727, 5730, 5733, 5737, 5740, 5743, 5746, 5749, 5753, 5756, 5759, 5762, 5765, 5768,
      5771, 5775, 5778, 5781, 5784, 5787, 5790, 5793, 5796, 5799, 5802, 5805, 5808, 5811, 5814, 5817, 5820, 5823, 5826, 5829,
      5832, 5835, 5838, 5841, 5844, 5846, 5849, 5852, 5855, 5858, 5861, 5864, 5866, 5869, 5872, 5875, 5878, 5881, 5883, 5886,
      5889, 5892, 5894, 5897, 5900, 5903, 5905, 5908, 5911, 5914, 5916, 5919, 5922, 5924, 5927, 5930, 5932, 5935, 5938, 5940,
      5943, 5945, 5948, 5951, 5953, 5956, 5958, 5961, 5964, 5966, 5969, 5971, 5974, 5976, 5979, 5981, 5984, 5986, 5989, 5991 >>

\* math.log of the rational num/den (num, den positive integers)
Ln(num, den) == LnTable[num] - LnTable[den]

RECURSIVE IsqrtFrom(_, _)
IsqrtFrom(n, x) ==
   LET y == (x + n \div x) \div 2
   IN  IF y >= x THEN x ELSE IsqrtFrom(n, y)

\* floor(sqrt(n)), Newton's iteration from above
Isqrt(n) == IF n <= 0 THEN 0 ELSE IF n < 4 THEN 1 ELSE IsqrtFrom(n, n \div 2)

\* math.sqrt of a fixed-point number (np.linalg.norm of a squared norm)
Sqrt(a) ==
   IF a < 2 * SCALE * SCALE
   THEN Isqrt(a * SCALE)
   ELSE (Isqrt(a) * 31623) \div SCALE

RECURSIVE SumSeq(_)
SumSeq(s) == IF s = << >> THEN 0 ELSE Head(s) + SumSeq(Tail(s))

\* ------------------------------------------------------------------------
\* Strings: str.lower, the in operator, str.count, str.replace
\* ------------------------------------------------------------------------

UpperChars == "ABCDEFGHIJKLMNOPQRSTUVWXYZ"

LowerChars == "abcdefghijklmnopqrstuvwxyz"

LowerChar(c) ==
   IF \E i \in 1..Len(UpperChars) : SubSeq(UpperChars, i, i) = c
   THEN LET i == CHOOSE j \in 1..Len(UpperChars) : SubSeq(UpperChars, j, j) = c
        IN  SubSeq(LowerChars, i, i)
   ELSE c

RECURSIVE LowerFrom(_, _)
LowerFrom(w, i) ==
   IF i > Len(w) THEN "" ELSE LowerChar(SubSeq(w, i, i)) \o LowerFrom(w, i + 1)

\* str.lower() of one word
LowerWord(w) == LowerFrom(w, 1)

\* text.lower().split(): the lowercased words
Lower(text) == [i \in 1..Len(text) |-> LowerWord(text[i])]

\* k in w, for a non-empty k
Contains(w, k) ==
   \E i \in 1..(Len(w) - Len(k) + 1) : SubSeq(w, i, i + Len(k) - 1) = k

RECURSIVE CountFrom(_, _, _)
CountFrom(w, k, i) ==
   IF i + Len(k) - 1 > Len(w) THEN 0
   ELSE IF SubSeq(w, i, i + Len(k) - 1) = k
        THEN 1 + CountFrom(w, k, i + Len(k))
        ELSE CountFrom(w, k, i + 1)

\* w.count(k): the non-overlapping occurrences of k in the word w
CountIn(w, k) == CountFrom(w, k, 1)

RECURSIVE ReplaceFrom(_, _, _, _)
ReplaceFrom(w, old, new, i) ==
   IF i > Len(w) THEN ""
   ELSE IF i + Len(old) - 1 <= Len(w) /\ SubSeq(w, i, i + Len(old) - 1) = old
        THEN new \o ReplaceFrom(w, old, new, i + Len(old))
        ELSE SubSeq(w, i, i) \o ReplaceFrom(w, old, new, i + 1)

\* w.replace(old, new)
Replace(w, old, new) == IF Contains(w, old) THEN ReplaceFrom(w, old, new, 1) ELSE w

\* k in text, text.count(k) for a keyword k without white space: every
\* occurrence lies inside one word
TextContains(text, k) == \E i \in 1..Len(text) : Contains(text[i], k)

TextCount(text, k) == SumSeq([i \in 1..Len(text) |-> CountIn(text[i], k)])

\* the number of positions of the word w in text
Occurrences(text, w) == Cardinality({i \in 1..Len(text) : text[i] = w})

\* set(text)
WordSet(text) == {text[i] : i \in 1..Len(text)}

\* len(s) of the string " ".join(text)
CharLen(text) ==
   IF text = << >> THEN 0
   ELSE SumSeq([i \in 1..Len(text) |-> Len(text[i])]) + Len(text) - 1

RECURSIVE SumFn(_, _)
\* the sum of f[x] over the finite set S
SumFn(f, S) ==
   IF S = {} THEN 0
   ELSE LET x == CHOOSE y \in S : TRUE IN f[x] + SumFn(f, S \ {x})

RECURSIVE Flatten(_)
\* the concatenation of a sequence of sequences
Flatten(ss) == IF ss = << >> THEN << >> ELSE Head(ss) \o Flatten(Tail(ss))

\* ------------------------------------------------------------------------
\* relevancy_scoring.py: BulgarianLegalRelevancyScorer
\* ------------------------------------------------------------------------

\* self.legal_domains, in the dict's insertion order; weights in thousandths
legal_domains ==
   << [name |-> "grazhdansko_pravo", weight |-> 1000,
       keywords |-> <<"obezshtetenie", "dogovor", "sobstvenost", "nasledstvo",
                      "semeystvo", "razvod", "alimenti", "danatsi">>],
      [name |-> "nakazatelno_pravo", weight |-> 1000,
       keywords |-> <<"prestaplenie", "nakazanie", "zatvor", "globa",
                      "ubiystvo", "krazha", "izmama", "droga">>],
      [name |-> "administrativno_pravo", weight |-> 600,
       keywords |-> <<"administrativen", "litsenz", "razreshenie", "naredba",
                      "postanovlenie", "ministerstvo", "regulatsiya">>],
      [name |-> "trudovo_pravo", weight |-> 1000,
       keywords |-> <<"rabota", "trudov", "zaplata", "otpuska", "uvolnenie",
                      "dogovor", "osigurovka", "pensiya">>],
      [name |-> "protsesualno_pravo", weight |-> 900,
       keywords |-> <<"sad", "delo", "protses", "sadeben", "apelatsiya",
                      "kasatsiya", "reshenie", "prizovka">>],
      [name |-> "meditsinsko_pravo", weight |-> 1000,
       keywords |-> <<"meditsinski", "lechenie", "bolnitsa", "lekar",
                      "zdraveopazvane", "uvrezhdane", "invalidnost">>] >>

\* self.domain_authority, in the dict's insertion order
domain_authority ==
   << [domain |-> "ciela.net", score |-> 950],
      [domain |-> "apis.bg", score |-> 900],
      [domain |-> "lakorda.com", score |-> 750],
      [domain |-> "justice.government.bg", score |-> 850],
      [domain |-> "vks.bg", score |-> 800],
      [domain |-> "vss.bg", score |-> 800] >>

\* self.bm25_k1 = 1.8, self.bm25_b = 0.7
bm25_k1 == 1800

bm25_b == 700

\* self.scoring_weights
weight_bm25 == 300

weight_semantic == 250

weight_legal_context == 250

weight_domain_authority == 100

weight_title_boost == 100

\* The score one domain gives a lowercased text: log(1 + occurrences) * weight
\* per matched keyword, times (1 + 0.1 * matches) when several matched
DomainScore(text_lower, config) ==
   LET kws     == config.keywords
       matched == {i \in 1..Len(kws) : TextContains(text_lower, kws[i])}
       part    == [i \in matched |->
                     Mul(Ln(1 + TextCount(text_lower, kws[i]), 1), config.weight)]
       score   == SumFn(part, matched)
       keyword_matches == Cardinality(matched)
   IN  IF keyword_matches > 1
       THEN Mul(score, SCALE + 100 * keyword_matches)
       ELSE score

\* an identify_legal_domain that returns the first domain with a keyword in
\* the text instead of the one with the highest score
identify_first_legal_domain(text) ==
   LET text_lower    == Lower(text)
       domain_scores == [d \in 1..Len(legal_domains) |->
                            DomainScore(text_lower, legal_domains[d])]
       found == {d \in 1..Len(legal_domains) : domain_scores[d] > 0}
       best  == CHOOSE d \in found : \A e \in found : d <= e
   IN  IF found = {}
       THEN [domain |-> "unknown", confidence |-> 0]
       ELSE [domain |-> legal_domains[best].name,
             confidence |-> Min(domain_scores[best] \div 10, SCALE)]

\* identify_legal_domain(text) -> (domain, confidence)
identify_legal_domain(text) ==
   LET text_lower    == Lower(text)
       domain_scores == [d \in 1..Len(legal_domains) |->
                            DomainScore(text_lower, legal_domains[d])]
       top  == CHOOSE m \in {domain_scores[d] : d \in 1..Len(legal_domains)} :
                  \A d \in 1..Len(legal_domains) : domain_scores[d] <= m
       \* max(dict, key=...) returns the first key holding the maximum
       best == CHOOSE d \in 1..Len(legal_domains) :
                  /\ domain_scores[d] = top
                  /\ \A e \in 1..(d - 1) : domain_scores[e] < top
   IN  IF top = 0
       THEN [domain |-> "unknown", confidence |-> 0]
       ELSE [domain |-> legal_domains[best].name,
             confidence |-> Min(domain_scores[best] \div 10, SCALE)]

\* the typo table of the scorer's preprocess_query, in application order
scorer_corrections ==
   << <<"obeshtetenie", "obezshtetenie">>, <<"naskazanie", "nakazanie">>,
      <<"sashtta", "sashtata">>, <<"vraka", "vrazka">>,
      <<"amoga", "moga">>, <<"namam", "nyamam">> >>

\* the abbreviation table of the scorer's preprocess_query
scorer_expansions ==
   << <<"gk", <<"grazhdanski", "kodeks">> >>,
      <<"nk", <<"nakazatelen", "kodeks">> >>,
      <<"apk", <<"administrativnoprotsesualen", "kodeks">> >>,
      <<"tk", <<"trudov", "kodeks">> >> >>

RECURSIVE ApplyCorrections(_, _, _)
ApplyCorrections(w, table, i) ==
   IF i > Len(table) THEN w
   ELSE ApplyCorrections(Replace(w, table[i][1], table[i][2]), table, i + 1)

\* re.sub(r'\babbrev\b', expansion, ...) on one word: a whole word matches
ExpandWord(w) ==
   IF \E i \in 1..Len(scorer_expansions) : scorer_expansions[i][1] = w
   THEN scorer_expansions[CHOOSE i \in 1..Len(scorer_expansions) :
                             scorer_expansions[i][1] = w][2]
   ELSE <<w>>

\* BulgarianLegalRelevancyScorer.preprocess_query(query), then .split()
scorer_preprocess_query(query) ==
   LET corrected == [i \in 1..Len(query) |->
                       ApplyCorrections(LowerWord(query[i]), scorer_corrections, 1)]
   IN  Flatten([i \in 1..Len(corrected) |-> ExpandWord(corrected[i])])

\* calculate_bm25_score(query_terms, document_text, avg_doc_length).
\* avg_doc_length is the rational avg.num / avg.den.  The result is
\* [raised, value]: doc_length / avg_doc_length raises ZeroDivisionError
\* when avg_doc_length is 0.0 and some query term occurs in the document.
calculate_bm25_score(query_terms, document_text, avg) ==
   LET doc_terms  == Lower(document_text)
       doc_length == Len(doc_terms)
       tf(i)      == Occurrences(doc_terms, LowerWord(query_terms[i]))
       hits       == {i \in 1..Len(query_terms) : tf(i) > 0}
       TermScore(i) ==
          LET idf         == Ln(avg.den + avg.num, avg.den * (1 + tf(i)))
              numerator   == tf(i) * (bm25_k1 + SCALE)
              ratio       == (doc_length * avg.den * SCALE) \div avg.num
              denominator == tf(i) * SCALE
                             + Mul(bm25_k1, SCALE - bm25_b + Mul(bm25_b, ratio))
          IN  Mul(idf, Div(numerator, denominator))
   IN  IF hits # {} /\ avg.num = 0
       THEN [raised |-> TRUE, value |-> 0]
       ELSE [raised |-> FALSE,
             value  |-> SumFn([i \in hits |-> TermScore(i)], hits)]

\* the characters \w of the token_pattern matches
WordChars ==
   {SubSeq(LowerChars \o UpperChars \o "0123456789_", i, i) : i \in 1..63}

RECURSIVE WordRuns(_, _, _)
\* the maximal runs of word characters of w from position i on, run being
\* the one under way
WordRuns(w, i, run) ==
   IF i > Len(w) THEN (IF run = "" THEN << >> ELSE <<run>>)
   ELSE IF SubSeq(w, i, i) \in WordChars
        THEN WordRuns(w, i + 1, run \o SubSeq(w, i, i))
        ELSE (IF run = "" THEN << >> ELSE <<run>>) \o WordRuns(w, i + 1, "")

\* TfidfVectorizer's analyzer: lowercase, tokens of two or more word
\* characters (token_pattern), then the 1-grams and 2-grams
Tokens(text) ==
   SelectSeq(Flatten([i \in 1..Len(text) |-> WordRuns(LowerWord(text[i]), 1, "")]),
             LAMBDA w : Len(w) >= 2)

Ngrams(tok) ==
   {<<tok[i]>> : i \in 1..Len(tok)}
      \cup {<<tok[i], tok[i + 1]>> : i \in 1..(Len(tok) - 1)}

NgramCount(tok, g) ==
   IF Len(g) = 1
   THEN Cardinality({i \in 1..Len(tok) : tok[i] = g[1]})
   ELSE Cardinality({i \in 1..(Len(tok) - 1) : tok[i] = g[1] /\ tok[i + 1] = g[2]})

\* (ln((1 + 2) / (1 + 1)) + 1) ^ 2: the squared smooth idf of a term that
\* one of the two documents holds; a term both hold has idf 1
IdfOneDocSquared == 1975

\* the squared norm (in thousandths) of a tf-idf row
TfidfNorm2(tok, other) ==
   LET mine == Ngrams(tok)
       sq   == [g \in mine |->
                  NgramCount(tok, g) * NgramCount(tok, g)
                     * (IF g \in Ngrams(other) THEN SCALE ELSE IdfOneDocSquared)]
   IN  SumFn(sq, mine)

\* cosine_similarity of the tf-idf rows of query and document:
\* [raised, value]; fit_transform raises ValueError (empty vocabulary)
\* when neither text holds a token
TfidfSimilarity(query, document_text) ==
   LET q      == Tokens(query)
       d      == Tokens(document_text)
       shared == Ngrams(q) \cap Ngrams(d)
       dot    == SumFn([g \in shared |-> NgramCount(q, g) * NgramCount(d, g)], shared)
       nq     == Sqrt(TfidfNorm2(q, d))
       nd     == Sqrt(TfidfNorm2(d, q))
   IN  IF q = << >> /\ d = << >>
       THEN [raised |-> TRUE, value |-> 0]
       ELSE IF dot = 0 \/ nq = 0 \/ nd = 0
       THEN [raised |-> FALSE, value |-> 0]
       ELSE [raised |-> FALSE,
             value  |-> Min((((dot * SCALE * SCALE) \div nq) * SCALE) \div nd,
                            SCALE)]

\* the simple word overlap fallback of calculate_semantic_similarity
WordOverlap(query, document_text) ==
   LET query_words == WordSet(Lower(query))
       doc_words   == WordSet(Lower(document_text))
   IN  IF query_words # {} /\ doc_words # {}
       THEN Min(Div(Cardinality(query_words \cap doc_words),
                    Cardinality(query_words)), SCALE)
       ELSE 0

\* calculate_semantic_similarity(query, document_text).  client: whether
\* self.openai_client is set; embedding: what the embedding path yields
\* for this pair: ok is FALSE when an embedding is None, the norm product
\* is 0 or the call raised, and value is the cosine in thousandths.
calculate_semantic_similarity(query, document_text, client, embedding) ==
   IF client /\ embedding.ok
   THEN embedding.value
   ELSE LET tfidf == TfidfSimilarity(query, document_text)
        IN  IF tfidf.raised
            THEN WordOverlap(query, document_text)
            ELSE tfidf.value

\* calculate_domain_authority(url)
calculate_domain_authority(url) ==
   IF \E i \in 1..Len(domain_authority) : Contains(url, domain_authority[i].domain)
   THEN domain_authority[CHOOSE i \in 1..Len(domain_authority) :
           /\ Contains(url, domain_authority[i].domain)
           /\ \A j \in 1..(i - 1) : ~Contains(url, domain_authority[j].domain)].score
   ELSE 500

personal_legal_domains ==
   {"grazhdansko_pravo", "nakazatelno_pravo", "trudovo_pravo", "meditsinsko_pravo"}

\* a calculate_legal_context_score without the penalty for administrative
\* law
legal_context_score_no_penalty(query, document_text) ==
   LET q == identify_legal_domain(query)
       d == identify_legal_domain(document_text)
   IN  IF q.domain = d.domain /\ q.domain # "unknown"
       THEN Min(Mul(q.confidence, d.confidence) * 2, SCALE)
       ELSE IF q.domain = "unknown" /\ d.domain # "unknown"
       THEN Mul(d.confidence, 600)
       ELSE IF q.domain # "unknown" /\ d.domain = "unknown"
       THEN Mul(q.confidence, 400)
       ELSE 300

\* calculate_legal_context_score(query, document_text)
calculate_legal_context_score(query, document_text) ==
   LET q == identify_legal_domain(query)
       d == identify_legal_domain(document_text)
   IN  IF q.domain = d.domain /\ q.domain # "unknown"
       THEN Min(Mul(q.confidence, d.confidence) * 2, SCALE)
       ELSE IF q.domain \in personal_legal_domains
               /\ d.domain = "administrativno_pravo"
       THEN 200
       ELSE IF q.domain = "unknown" /\ d.domain # "unknown"
       THEN Mul(d.confidence, 600)
       ELSE IF q.domain # "unknown" /\ d.domain = "unknown"
       THEN Mul(q.confidence, 400)
       ELSE 300

\* ------------------------------------------------------------------------
\* list.sort(key=..., reverse=True)
\* ------------------------------------------------------------------------

Reverse(s) == [i \in 1..Len(s) |-> s[Len(s) + 1 - i]]

\* binary insertion: p goes to the right of every element whose key is <= its own
InsertAsc(sorted, p) ==
   LET n == Cardinality({i \in 1..Len(sorted) : sorted[i].key <= p.key})
   IN  SubSeq(sorted, 1, n) \o <<p>> \o SubSeq(sorted, n + 1, Len(sorted))

RECURSIVE SortAscFrom(_, _, _)
SortAscFrom(sorted, pairs, i) ==
   IF i > Len(pairs) THEN sorted
   ELSE SortAscFrom(InsertAsc(sorted, pairs[i]), pairs, i + 1)

\* the stable ascending sort of [key, item] pairs
SortAsc(pairs) == SortAscFrom(<< >>, pairs, 1)

\* a descending sort that is not stable: items of equal key come out in the
\* reverse of their input order
SortReverseUnstable(items, keys) ==
   LET pairs  == [i \in 1..Len(items) |-> [key |-> keys[i], item |-> items[i]]]
       sorted == Reverse(SortAsc(pairs))
   IN  [i \in 1..Len(sorted) |-> sorted[i].item]

\* items.sort(key=..., reverse=True), keys[i] being the key of items[i]:
\* the list is reversed, sorted ascending and stable, and reversed again
SortReverse(items, keys) ==
   LET pairs  == [i \in 1..Len(items) |-> [key |-> keys[i], item |-> items[i]]]
       sorted == Reverse(SortAsc(Reverse(pairs)))
   IN  [i \in 1..Len(sorted) |-> sorted[i].item]

\* ------------------------------------------------------------------------
\* SearchResult and score_and_rank
\* ------------------------------------------------------------------------

\* SearchResult(url=, title=, snippet=, content=): the dataclass defaults
SearchResult(url, title, snippet, content) ==
   [url |-> url, title |-> title, snippet |-> snippet, content |-> content,
    bm25_score |-> 0, semantic_score |-> 0, title_relevance |-> 0,
    legal_context_score |-> 0, domain_authority_score |-> 0,
    combined_score |-> 0, relevancy_probability |-> 0, confidence_score |-> 0,
    legal_domain |-> "unknown", legal_relevance |-> 0]

\* what the embedding path of calculate_semantic_similarity yields for a
\* document, by the url of its result: the cosine of the two embeddings in
\* thousandths, or no cosine at all
EmbeddingCosine(url) ==
   IF Contains(url, "/neg") THEN [ok |-> TRUE, value |-> 0 - 400]
   ELSE IF Contains(url, "/emb") THEN [ok |-> TRUE, value |-> 820]
   ELSE [ok |-> FALSE, value |-> 0]

\* the title boost: 0.1 per query term found in the lowercased title, at most 0.5
TitleBoost(query_terms, title) ==
   LET title_lower == Lower(title)
   IN  Min(100 * Cardinality({i \in 1..Len(query_terms) :
                                TextContains(title_lower, query_terms[i])}), 500)

\* a combined score whose BM25 component is not cut at 1
CombinedScoreUncut(bm25_score, semantic_score, legal_context_score, domain_authority_score, title_boost) ==
   Mul(weight_bm25, bm25_score \div 10)
      + Mul(weight_semantic, semantic_score)
      + Mul(weight_legal_context, legal_context_score)
      + Mul(weight_domain_authority, domain_authority_score)
      + Mul(weight_title_boost, title_boost)

\* combined_score: the weighted sum of the five components, the BM25 score
\* divided by 10 and cut at 1
CombinedScore(bm25_score, semantic_score, legal_context_score, domain_authority_score, title_boost) ==
   Mul(weight_bm25, Min(bm25_score \div 10, SCALE))
      + Mul(weight_semantic, semantic_score)
      + Mul(weight_legal_context, legal_context_score)
      + Mul(weight_domain_authority, domain_authority_score)
      + Mul(weight_title_boost, title_boost)

\* the assignments to the fields of one result
Scored(result, bm25_score, semantic_score, legal_context_score, domain_authority_score, combined_score, legal) ==
   [result EXCEPT
      !.bm25_score = bm25_score,
      !.semantic_score = semantic_score,
      !.legal_context_score = legal_context_score,
      !.domain_authority_score = domain_authority_score,
      !.combined_score = combined_score,
      !.relevancy_probability = combined_score,
      !.legal_domain = legal.domain,
      !.legal_relevance = legal.confidence,
      !.confidence_score = Min(Mul(combined_score, 1200), SCALE)]

\* one result with its components: [raised, result]
ScoredWith(result, bm25, semantic_score, legal_context_score, domain_authority_score, title_boost, legal) ==
   [raised |-> bm25.raised,
    result |-> Scored(result, bm25.value, semantic_score, legal_context_score,
                      domain_authority_score,
                      CombinedScore(bm25.value, semantic_score, legal_context_score,
                                    domain_authority_score, title_boost),
                      legal)]

\* the scoring of one result whose title, snippet and content make full_text
ScoreText(result, full_text, query_terms, avg, client) ==
   ScoredWith(result,
              calculate_bm25_score(query_terms, full_text, avg),
              calculate_semantic_similarity(query_terms, full_text, client,
                                            EmbeddingCosine(result.url)),
              calculate_legal_context_score(query_terms, full_text),
              calculate_domain_authority(result.url),
              TitleBoost(query_terms, result.title),
              identify_legal_domain(full_text))

\* the body of score_and_rank's loop for one result: [raised, result]
ScoreResult(result, query_terms, avg, client) ==
   ScoreText(result, result.title \o result.snippet \o result.content,
             query_terms, avg, client)

\* len((result.content or result.snippet).split())
ContentLength(result) ==
   IF result.content # << >> THEN Len(result.content) ELSE Len(result.snippet)

\* avg_doc_length of a non-empty batch, as a fraction
AvgDocLength(search_results) ==
   [num |-> SumSeq([i \in 1..Len(search_results) |-> ContentLength(search_results[i])]),
    den |-> Len(search_results)]

RECURSIVE ScoreFrom(_, _, _, _, _)
\* the loop of score_and_rank from the i-th result on: scored_results.append
ScoreFrom(search_results, query_terms, avg, client, i) ==
   IF i > Len(search_results) THEN << >>
   ELSE <<ScoreResult(search_results[i], query_terms, avg, client)>>
           \o ScoreFrom(search_results, query_terms, avg, client, i + 1)

\* the loop of score_and_rank
ScoreAll(search_results, query_terms, avg, client) ==
   ScoreFrom(search_results, query_terms, avg, client, 1)

\* the end of score_and_rank: the exception of the loop, or the sorted list
Ranked(scored) ==
   IF \E i \in 1..Len(scored) : scored[i].raised
   THEN [raised |-> TRUE, results |-> << >>]
   ELSE [raised  |-> FALSE,
         results |-> SortReverse([i \in 1..Len(scored) |-> scored[i].result],
                                 [i \in 1..Len(scored) |-> scored[i].result.combined_score])]

\* a score_and_rank without the early return for an empty batch: the log
\* line after the sort reads scored_results[0] and raises IndexError
score_and_rank_no_early_return(query, search_results, client) ==
   IF search_results = << >>
   THEN [raised |-> TRUE, results |-> << >>]
   ELSE Ranked(ScoreAll(search_results, scorer_preprocess_query(query),
                        AvgDocLength(search_results), client))

\* score_and_rank(query, search_results): [raised, results].  raised: the
\* call ended in an exception (ZeroDivisionError of calculate_bm25_score).
score_and_rank(query, search_results, client) ==
   IF search_results = << >>
   THEN [raised |-> FALSE, results |-> << >>]
   ELSE Ranked(ScoreAll(search_results, scorer_preprocess_query(query),
                        AvgDocLength(search_results), client))

\* ------------------------------------------------------------------------
\* enhanced_legal_tools.py: the adaptive filter of enhanced_bulgarian_legal_search
\* ------------------------------------------------------------------------

\* [r for r in scored_results if r.get('relevancy_score', 0) >= threshold]
AtLeast(scored_results, threshold) ==
   SelectSeq(scored_results, LAMBDA r : r.relevancy_score >= threshold)

\* scored_results[:n]
Take(s, n) == SubSeq(s, 1, Min(n, Len(s)))

\* a filter whose medium branch asks for 10 results and keeps 12 of them
AdaptiveFilterWrongMedium(scored_results) ==
   LET high_quality_results   == AtLeast(scored_results, 600)
       medium_quality_results == AtLeast(scored_results, 300)
   IN  IF Len(high_quality_results) >= 10
       THEN Take(high_quality_results, 20)
       ELSE IF Len(medium_quality_results) >= 10
       THEN Take(medium_quality_results, 12)
       ELSE Take(scored_results, 12)

\* a filter whose last branch keeps results scoring at least 0.3 only
AdaptiveFilterNoFallback(scored_results) ==
   LET high_quality_results   == AtLeast(scored_results, 600)
       medium_quality_results == AtLeast(scored_results, 300)
   IN  IF Len(high_quality_results) >= 10
       THEN Take(high_quality_results, 20)
       ELSE IF Len(medium_quality_results) >= 8
       THEN Take(medium_quality_results, 15)
       ELSE Take(medium_quality_results, 12)

\* the threshold branch: filtered_results
AdaptiveFilter(scored_results) ==
   LET high_quality_results   == AtLeast(scored_results, 600)
       medium_quality_results == AtLeast(scored_results, 300)
   IN  IF Len(high_quality_results) >= 10
       THEN Take(high_quality_results, 20)
       ELSE IF Len(medium_quality_results) >= 8
       THEN Take(medium_quality_results, 15)
       ELSE Take(scored_results, 12)

\* a final cut that keeps at most 10 results
FinalResultsTen(filtered_results) ==
   Take(filtered_results, Min(10, Len(filtered_results)))

\* final_results = filtered_results[:max(15, min(len(filtered_results), 20))]
FinalResults(filtered_results) ==
   Take(filtered_results, Max(15, Min(Len(filtered_results), 20)))

\* ------------------------------------------------------------------------
\* enhanced_legal_tools.py: the collaborators of enhanced_bulgarian_legal_search
\* ------------------------------------------------------------------------

\* the typo table of preprocess_query
typo_corrections ==
   << <<"amoga", "moga">>, <<"sashta", "sashtata">>, <<"vraka", "vrazka">>,
      <<"obeshtetenie", "obezshtetenie">>, <<"naskazanie", "nakazanie">> >>

\* the key legal terms of preprocess_query
important_words ==
   <<"obezshtetenie", "nakazanie", "schupvane", "raka", "suma", "pomosht",
     "pravo", "zakon", "sad">>

\* a preprocess_query that cuts every query of more than 15 words, also
\* one without a key legal term
preprocess_query_cut_always(query) ==
   LET words == [i \in 1..Len(query) |-> ApplyCorrections(query[i], typo_corrections, 1)]
       legal_keywords ==
          SelectSeq(words, LAMBDA w : \E k \in 1..Len(important_words) :
                                         Contains(LowerWord(w), important_words[k]))
   IN  IF Len(words) > 15 THEN Take(legal_keywords, 8) ELSE words

\* preprocess_query(query): the typos corrected, and a query of more than
\* 15 words cut to its first 8 words that hold a key legal term
preprocess_query(query) ==
   LET words == [i \in 1..Len(query) |-> ApplyCorrections(query[i], typo_corrections, 1)]
       legal_keywords ==
          SelectSeq(words, LAMBDA w : \E k \in 1..Len(important_words) :
                                         Contains(LowerWord(w), important_words[k]))
   IN  IF Len(words) > 15 /\ legal_keywords # << >>
       THEN Take(legal_keywords, 8)
       ELSE words

\* d.get(key, default)
Get(d, key, default) == IF key \in DOMAIN d THEN d[key] ELSE default

\* google_cse_search_legal: the result dicts made of the provider's items
google_cse_search_legal(items) ==
   [i \in 1..Len(items) |->
      [title |-> Get(items[i], "title", <<"No", "Title">>),
       href  |-> Get(items[i], "link", "No URL"),
       body  |-> Get(items[i], "snippet", <<"No", "Description">>)]]

\* google_domain_search(query, max_results): the per-domain searches taken
\* together.  response is what the provider answers: failed (every domain
\* search ended in an exception, each caught) or the items of the domains
\* in order.  The provider is not held to the requested number of results.
google_domain_search(response) ==
   IF response.failed THEN << >> ELSE google_cse_search_legal(response.items)

\* the record of one call google_domain_search(query, ...): the phase that
\* made it, its query, whether every domain search failed, and the number
\* of results
SearchCall(phase, q, response) ==
   [phase |-> phase, query |-> q, failed |-> response.failed,
    found |-> Len(google_domain_search(response))]

\* intelligent_query_expansion(query): reply is what the LLM call yields:
\* raised, or the query texts listed in its SEARCH_QUERIES section
intelligent_query_expansion(query, reply) ==
   IF reply.raised THEN <<query>>
   ELSE Take(SelectSeq(reply.queries, LAMBDA q : CharLen(q) > 5), 5)

\* the pairs that results_summary of adaptive_query_refinement is built of:
\* zip(search_results[:5], relevancy_scores[:5])
ResultsSummary(search_results, relevancy_scores) ==
   [i \in 1..Min(5, Min(Len(search_results), Len(relevancy_scores))) |->
      [result |-> search_results[i], score |-> relevancy_scores[i]]]

\* adaptive_query_refinement(query, search_results, relevancy_scores): reply
\* is what the LLM call yields: raised, or the query texts listed in its
\* REFINED_QUERIES section
adaptive_query_refinement(reply) ==
   IF reply.raised THEN << >>
   ELSE Take(SelectSeq(reply.queries, LAMBDA q : CharLen(q) > 5), 4)

\* the text of a fetched page of more than 100 characters
LongPage ==
   <<"naredba", "za", "litsenzirane", "na", "administrativnite", "organi",
     "i", "reda", "za", "izdavane", "na", "razreshitelni", "dokumenti", "ot",
     "ministerstvoto", "na", "pravosadieto", "na", "republika", "balgariya">>

\* error_msg of process_content for a request that timed out
ErrorMessage(url) ==
   <<"Error", "processing", "URL", url \o ":",
     "HTTPSConnectionPool(host='lex.bg',", "port=443):",
     "Read", "timed", "out.", "(read", "timeout=15)">>

\* process_content.invoke({"url": url}): [raised, text].  The pages of
\* apis.bg are fetched in full, those of lakorda.com come back short, the
\* requests to lex.bg time out, which process_content answers with its
\* error message, and for any other page the invocation itself raises.
process_content(url) ==
   IF Contains(url, "apis.bg") THEN [raised |-> FALSE, text |-> LongPage]
   ELSE IF Contains(url, "lakorda.com")
   THEN [raised |-> FALSE, text |-> <<"Stranitsata", "ne", "e", "namerena">>]
   ELSE IF Contains(url, "lex.bg")
   THEN [raised |-> FALSE, text |-> ErrorMessage(url)]
   ELSE [raised |-> TRUE, text |-> << >>]

\* extract_deep_content(result)
extract_deep_content(result) ==
   LET url == result.href
   IN  IF url = "" \/ url = "No URL"
       THEN result @@ [enhanced_content |-> result.body]
       ELSE LET deep_content == process_content(url)
            IN  IF ~deep_content.raised /\ CharLen(deep_content.text) > 100
                THEN result @@ [enhanced_content |-> deep_content.text,
                                content_length   |-> CharLen(deep_content.text)]
                ELSE result @@ [enhanced_content |-> result.body]

\* the SearchResult objects of the preliminary scoring
SearchResultObjects(enhanced_results) ==
   [i \in 1..Len(enhanced_results) |->
      SearchResult(enhanced_results[i].href, enhanced_results[i].title,
                   enhanced_results[i].body,
                   Get(enhanced_results[i], "enhanced_content", << >>))]

\* sum(preliminary_scores) / len(preliminary_scores) if preliminary_scores else 0
AvgRelevancy(preliminary_scores) ==
   IF preliminary_scores = << >> THEN 0
   ELSE SumSeq(preliminary_scores) \div Len(preliminary_scores)

\* avg_relevancy < 0.7 or len(enhanced_results) < max_results * 0.8
RefinementTriggered(avg_relevancy, count, max) ==
   avg_relevancy < 700 \/ 5 * count < 4 * max

\* the simplified dicts of the final processing: results without a url are
\* skipped
SimplifiedResults(raw_results) ==
   LET kept == SelectSeq(raw_results, LAMBDA r : r.href # "")
   IN  [i \in 1..Len(kept) |->
          [url |-> kept[i].href, href |-> kept[i].href,
           title |-> kept[i].title,
           snippet |-> kept[i].body, body |-> kept[i].body,
           content |-> Get(kept[i], "content", << >>),
           metadata |-> kept[i]]]

\* relevancy of the simplified scoring: the share of the query's words
\* found in the lowercased title, snippet and content of a result
SimpleRelevancy(query_words, full_text) ==
   IF query_words # << >>
   THEN Min(Div(Cardinality({i \in 1..Len(query_words) :
                               TextContains(full_text, query_words[i])}),
                Len(query_words)), SCALE)
   ELSE 500

\* the result with the scoring metadata of the simplified scoring
WithSimpleScore(result, relevancy) ==
   result @@ [relevancy_score  |-> relevancy,
              confidence_score |-> IF relevancy > 700 THEN 800
                                   ELSE IF relevancy > 400 THEN 600 ELSE 400]

\* the simplified scoring of one result
SimpleScore(query, result) ==
   WithSimpleScore(result,
      SimpleRelevancy(Lower(query),
                      Lower(result.title) \o Lower(result.snippet) \o Lower(result.content)))

RECURSIVE SimpleScoreFrom(_, _, _)
\* the loop of the simplified scoring from the i-th result on
SimpleScoreFrom(query, search_results, i) ==
   IF i > Len(search_results) THEN << >>
   ELSE <<SimpleScore(query, search_results[i])>>
           \o SimpleScoreFrom(query, search_results, i + 1)

\* scored_results before the sort
ScoredResults(query, search_results) ==
   IF search_results # << >> /\ "enhanced_content" \notin DOMAIN search_results[1]
   THEN SimpleScoreFrom(query, search_results, 1)
   ELSE search_results

\* scored_results.sort(key=lambda x: x.get('relevancy_score', 0), reverse=True)
SortByRelevancy(scored_results) ==
   SortReverse(scored_results,
               [i \in 1..Len(scored_results) |->
                  Get(scored_results[i], "relevancy_score", 0)])

\* final_results of a call that reached its final processing with raw_results
FinalProcessing(query, raw_results) ==
   FinalResults(AdaptiveFilter(SortByRelevancy(
      ScoredResults(query, SimplifiedResults(raw_results)))))

\* ------------------------------------------------------------------------
\* State
\* ------------------------------------------------------------------------

VARIABLES
   \* one call of score_and_rank
   sr_pc,          \* "idle", "called", "returned" or "raised"
   sr_query,       \* the query argument
   sr_input,       \* the search_results argument
   openai_client,  \* whether the scorer holds an OpenAI client
   sr_output,      \* the returned list
   \* one run of the adaptive filter
   f_pc,           \* "idle", "called" or "returned"
   f_input,        \* scored_results, sorted by relevancy_score
   f_filtered,     \* filtered_results
   f_output,       \* final_results
   \* one call of enhanced_bulgarian_legal_search
   pc,                 \* where the call stands
   query,              \* the query argument
   max_results,        \* the max_results argument
   min_relevancy,      \* the min_relevancy argument
   expansion_reply,    \* what the LLM call of the expansion yielded
   expanded_queries,   \* the queries of phase 1
   qi,                 \* the index of the next expanded query
   all_results,        \* the results of phase 1
   enhanced_results,   \* the deep-extracted results
   preliminary_scores, \* the relevancy_probability of the preliminary ranking
   refine_calls,       \* how many times adaptive_query_refinement was called
   results_summary,    \* the (result, score) pairs of the refinement prompt
   refined_queries,    \* the queries of phase 3
   ri,                 \* the index of the next refined query
   raw_results,        \* the results handed to the final processing
   final_results,      \* the results handed to the formatter
   outcome,            \* what the call returned: "none" while it runs
   searches,           \* the calls of google_domain_search, in order
   \* calls of calculate_bm25_score with one list of query terms
   bm_query_terms,     \* the query_terms argument
   bm_avg_doc_length,  \* the avg_doc_length argument, a ratio [num, den]
   bm_calls,           \* the calls made: document_text, raised and score
   \* one call of calculate_semantic_similarity
   ss_pc,              \* "idle", "called" or "returned"
   ss_query,           \* the query argument
   ss_document_text,   \* the document_text argument
   ss_client,          \* whether the scorer holds an OpenAI client
   ss_embedding,       \* what the embedding path yields for the pair
   ss_path,            \* the paths entered, in order
   ss_value,           \* the returned similarity
   \* one call of a helper of the scorer or of the search tool
   h_pc,               \* "idle", "called" or "returned"
   h_function,         \* the name of the helper called
   h_args,             \* its arguments
   h_result            \* what it returned

scoreVars == <<sr_pc, sr_query, sr_input, openai_client, sr_output>>

filterVars == <<f_pc, f_input, f_filtered, f_output>>

searchVars == <<pc, query, max_results, min_relevancy, expansion_reply, expanded_queries,
                qi, all_results, enhanced_results, preliminary_scores, refine_calls, results_summary,
                refined_queries, ri, raw_results, final_results, outcome, searches>>

bm25Vars == <<bm_query_terms, bm_avg_doc_length, bm_calls>>

similarityVars == <<ss_pc, ss_query, ss_document_text, ss_client, ss_embedding,
                    ss_path, ss_value>>

helperVars == <<h_pc, h_function, h_args, h_result>>

vars == <<scoreVars, filterVars, searchVars, bm25Vars, similarityVars, helperVars>>

ScoreIdle ==
   /\ sr_pc = "idle" /\ sr_query = << >> /\ sr_input = << >>
   /\ openai_client = FALSE /\ sr_output = << >>

FilterIdle ==
   /\ f_pc = "idle" /\ f_input = << >> /\ f_filtered = << >> /\ f_output = << >>

SearchIdle ==
   /\ pc = "idle" /\ query = << >> /\ max_results = 0 /\ min_relevancy = 0
   /\ expansion_reply = [raised |-> FALSE, queries |-> << >>]
   /\ expanded_queries = << >> /\ qi = 0 /\ all_results = << >>
   /\ enhanced_results = << >> /\ preliminary_scores = << >>
   /\ refine_calls = 0 /\ refined_queries = << >> /\ ri = 0
   /\ results_summary = << >>
   /\ raw_results = << >> /\ final_results = << >> /\ outcome = "none"
   /\ searches = << >>

Bm25Idle ==
   /\ bm_query_terms = << >> /\ bm_avg_doc_length = [num |-> 1, den |-> 1]
   /\ bm_calls = << >>

SimilarityIdle ==
   /\ ss_pc = "idle" /\ ss_query = << >> /\ ss_document_text = << >>
   /\ ss_client = FALSE /\ ss_embedding = [ok |-> FALSE, value |-> 0]
   /\ ss_path = << >> /\ ss_value = 0

HelperIdle ==
   /\ h_pc = "idle" /\ h_function = "none" /\ h_args = << >> /\ h_result = << >>

\* ------------------------------------------------------------------------
\* SpecScore: calls of score_and_rank
\* ------------------------------------------------------------------------

\* the longest batch handed to score_and_rank
MaxBatch == 2

\* the queries of the calls
ScoreQueries ==
   { <<"obezshtetenie", "za", "schupvane", "na", "raka">>,
     <<"v", "v", "v", "v", "v", "v", "v", "v">>,
     <<"Obeshtetenie", "po", "GK">> }

\* the results the batches are drawn from
ScoreDocs ==
   { SearchResult("https://ciela.net/1",
                  <<"Obezshtetenie", "za", "schupvane">>,
                  <<"obezshtetenie", "pri", "schupvane", "na", "raka">>, << >>),
     SearchResult("https://ciela.net/2",
                  <<"Obezshtetenie", "za", "schupvane">>,
                  <<"obezshtetenie", "pri", "schupvane", "na", "raka">>, << >>),
     SearchResult("http://example.bg/3", <<"Zakon">>, <<"v", "v", "v">>, <<"ok">>),
     SearchResult("https://apis.bg/emb/4", <<"Obezshtetenie">>, << >>, << >>),
     SearchResult("https://lakorda.com/neg/5",
                  <<"Naredba", "za", "litsenz">>,
                  <<"naredba", "za", "administrativen", "litsenz">>,
                  <<"grazhdanski", "kodeks", "i", "naredba">>),
     SearchResult("https://vks.bg/6", <<"Spravka">>, <<"obezshtetenie">>, << >>),
     SearchResult("https://vks.bg/7", <<"Obezshtetenie">>, <<"spravka">>, << >>) }

SeqsUpTo(S, n) == UNION {[1..k -> S] : k \in 0..n}

InitScore ==
   /\ sr_pc = "called"
   /\ sr_query \in ScoreQueries
   /\ sr_input \in SeqsUpTo(ScoreDocs, MaxBatch)
   /\ openai_client \in BOOLEAN
   /\ sr_output = << >>
   /\ FilterIdle
   /\ SearchIdle
   /\ Bm25Idle
   /\ SimilarityIdle
   /\ HelperIdle

\* score_and_rank(sr_query, sr_input) runs to its return or to its exception
ScoreAndRank ==
   /\ sr_pc = "called"
   /\ LET out == score_and_rank(sr_query, sr_input, openai_client)
      IN  /\ sr_pc' = IF out.raised THEN "raised" ELSE "returned"
          /\ sr_output' = out.results
   /\ UNCHANGED <<sr_query, sr_input, openai_client, filterVars, searchVars, bm25Vars, similarityVars, helperVars>>

NextScore == ScoreAndRank

SpecScore == InitScore /\ [][NextScore]_vars

\* ------------------------------------------------------------------------
\* SpecFilter: runs of the adaptive filter
\* ------------------------------------------------------------------------

\* the longest list handed to the filter
MaxFilterLen == 22

\* the relevancy scores of the lists
FilterScores == <<650, 600, 300, 200>>

\* n results with the given score, numbered from id + 1
Block(id, n, score) == [i \in 1..n |-> [id |-> id + i, relevancy_score |-> score]]

InitFilter ==
   /\ f_pc = "called"
   /\ \E a, b, c, d \in 0..MaxFilterLen :
         /\ a + b + c + d <= MaxFilterLen
         /\ f_input = Block(0, a, FilterScores[1]) \o Block(a, b, FilterScores[2])
                         \o Block(a + b, c, FilterScores[3])
                         \o Block(a + b + c, d, FilterScores[4])
   /\ f_filtered = << >>
   /\ f_output = << >>
   /\ ScoreIdle
   /\ SearchIdle
   /\ Bm25Idle
   /\ SimilarityIdle
   /\ HelperIdle

\* the threshold branch and the final cut of one run
ApplyFilter ==
   /\ f_pc = "called"
   /\ f_pc' = "returned"
   /\ f_filtered' = AdaptiveFilter(f_input)
   /\ f_output' = FinalResults(AdaptiveFilter(f_input))
   /\ UNCHANGED <<f_input, scoreVars, searchVars, bm25Vars, similarityVars, helperVars>>

NextFilter == ApplyFilter

SpecFilter == InitFilter /\ [][NextFilter]_vars

\* ------------------------------------------------------------------------
\* SpecScoreFilter: a call of score_and_rank and a run of the adaptive
\* filter, each on a list of at most one result
\* ------------------------------------------------------------------------

InitScoreFilter ==
   /\ sr_pc = "called"
   /\ sr_query \in ScoreQueries
   /\ sr_input \in SeqsUpTo(ScoreDocs, 1)
   /\ openai_client \in BOOLEAN
   /\ sr_output = << >>
   /\ f_pc = "called"
   /\ f_input \in {<< >>} \cup {Block(0, 1, FilterScores[k]) : k \in 1..Len(FilterScores)}
   /\ f_filtered = << >>
   /\ f_output = << >>
   /\ SearchIdle
   /\ Bm25Idle
   /\ SimilarityIdle
   /\ HelperIdle

NextScoreFilter ==
   \/ ScoreAndRank
   \/ ApplyFilter

SpecScoreFilter == InitScoreFilter /\ [][NextScoreFilter]_vars

\* ------------------------------------------------------------------------
\* Spec: calls of enhanced_bulgarian_legal_search
\* ------------------------------------------------------------------------

\* the most queries an expansion reply lists
MaxExpanded == 2

\* the most queries a refinement reply lists
MaxRefined == 1

\* the queries of the calls
SearchQueries ==
   { <<"obeshtetenie", "dogovor", "sobstvenost", "nasledstvo", "semeystvo", "razvod">> }

\* the max_results of the calls
MaxResultsValues == {2, 30}

\* the min_relevancy of the calls: the default
MinRelevancyValues == {150}

\* the items the search provider answers with
ItemCiela ==
   [title   |-> <<"Obezshtetenie", "dogovor", "sobstvenost", "nasledstvo", "semeystvo", "razvod">>,
    link    |-> "https://ciela.net/1",
    snippet |-> <<"obezshtetenie", "dogovor", "sobstvenost", "nasledstvo", "semeystvo", "razvod">>]

ItemLakorda ==
   [title   |-> <<"Obezshtetenie", "dogovor", "sobstvenost", "nasledstvo", "semeystvo", "razvod">>,
    link    |-> "https://lakorda.com/1",
    snippet |-> <<"obezshtetenie", "dogovor", "sobstvenost", "nasledstvo", "semeystvo", "razvod">>]

ItemNoLink == [title |-> <<"Obezshtetenie">>, snippet |-> << >>]

ItemApis ==
   [title   |-> <<"Naredba", "za", "litsenzirane">>,
    link    |-> "https://apis.bg/4",
    snippet |-> <<"naredba", "za", "litsenzirane">>]

ItemLex ==
   [title   |-> <<"Zakon", "za", "zadalzheniyata">>,
    link    |-> "https://lex.bg/1",
    snippet |-> <<"zakon", "za", "zadalzheniyata", "i", "dogovorite">>]

ItemEmptyLink ==
   [title   |-> <<"Semeen", "kodeks">>,
    link    |-> "",
    snippet |-> <<"semeen", "kodeks", "razvod">>]

ItemNoSnippet ==
   [title   |-> <<"Obezshtetenie">>,
    link    |-> "https://ciela.net/2",
    snippet |-> << >>]

\* what the provider answers to one google_domain_search
SearchResponses ==
   { [failed |-> TRUE,  items |-> << >>],
     [failed |-> FALSE, items |-> <<ItemEmptyLink>>],
     [failed |-> FALSE, items |-> << >>],
     [failed |-> FALSE, items |-> <<ItemCiela>>],
     [failed |-> FALSE, items |-> <<ItemLakorda, ItemCiela>>],
     [failed |-> FALSE, items |-> <<ItemNoLink>>],
     [failed |-> FALSE, items |-> <<ItemNoSnippet>>],
     [failed |-> FALSE, items |-> <<ItemApis, ItemLex>>] }

\* the query texts the LLM lists, in the order it lists them
QueryCandidates ==
   << <<"obezshtetenie", "pri", "neizpalnenie", "na", "dogovor">>,
      <<"delba", "na", "nasledstvo">>,
      <<"razvod", "i", "alimenti">>,
      <<"pravo", "na", "sobstvenost">>,
      <<"semeen", "kodeks">>,
      <<"zakon", "za", "zadalzheniyata", "i", "dogovorite">> >>

\* the replies of the LLM that list at most n queries
Replies(n) ==
   {[raised |-> TRUE, queries |-> << >>]}
      \cup {[raised |-> FALSE, queries |-> Take(QueryCandidates, k)] : k \in 0..n}

Init ==
   /\ pc = "expand"
   /\ query \in SearchQueries
   /\ max_results \in MaxResultsValues
   /\ min_relevancy \in MinRelevancyValues
   /\ expansion_reply = [raised |-> FALSE, queries |-> << >>]
   /\ expanded_queries = << >> /\ qi = 0 /\ all_results = << >>
   /\ enhanced_results = << >> /\ preliminary_scores = << >>
   /\ refine_calls = 0 /\ refined_queries = << >> /\ ri = 0
   /\ results_summary = << >>
   /\ raw_results = << >> /\ final_results = << >> /\ outcome = "none"
   /\ searches = << >>
   /\ ScoreIdle
   /\ FilterIdle
   /\ Bm25Idle
   /\ SimilarityIdle
   /\ HelperIdle

\* a phase 1 that gives up without the direct search when it found nothing
AfterSearchNoFallback(results, max) ==
   IF results = << >> THEN "final"
   ELSE IF Min(Len(results), max) = 0 THEN "score" ELSE "extract"

\* where the call goes once phase 1 is over: to the direct search when it
\* found nothing, else to the extraction loop over all_results[:max_results],
\* or past an empty one
AfterSearch(results, max) ==
   IF results = << >> THEN "fallback"
   ELSE IF Min(Len(results), max) = 0 THEN "score" ELSE "extract"

\* phase 1: the expansion of the query, with [query] for no query at all
Expand ==
   /\ pc = "expand"
   /\ \E reply \in Replies(MaxExpanded) :
         LET queries == intelligent_query_expansion(query, reply)
         IN  /\ expansion_reply' = reply
             /\ expanded_queries' = IF queries = << >> THEN <<query>> ELSE queries
   /\ qi' = 1
   /\ pc' = "search"
   /\ UNCHANGED <<query, max_results, min_relevancy, all_results, enhanced_results,
                  preliminary_scores, refine_calls, results_summary, refined_queries, ri,
                  raw_results, final_results, outcome, searches, scoreVars, filterVars,
                  bm25Vars, similarityVars, helperVars>>

\* phase 1: the search with one expanded query
SearchExpanded ==
   /\ pc = "search"
   /\ \E response \in SearchResponses :
      /\ searches' = Append(searches, SearchCall("expanded", expanded_queries[qi], response))
      /\ LET phase_results == google_domain_search(response)
         IN  /\ all_results' = all_results \o phase_results
             /\ pc' = IF qi < Len(expanded_queries) THEN "search"
                      ELSE AfterSearch(all_results \o phase_results, max_results)
   /\ qi' = qi + 1
   /\ UNCHANGED <<query, max_results, min_relevancy, expansion_reply, expanded_queries, enhanced_results,
                  preliminary_scores, refine_calls, results_summary, refined_queries, ri,
                  raw_results, final_results, outcome, scoreVars, filterVars,
                  bm25Vars, similarityVars, helperVars>>

\* phase 2: the deep extraction of the next of all_results[:max_results]
ExtractDeep ==
   /\ pc = "extract"
   /\ LET i == Len(enhanced_results) + 1
      IN  /\ enhanced_results' = Append(enhanced_results, extract_deep_content(all_results[i]))
          /\ pc' = IF i < Min(Len(all_results), max_results) THEN "extract" ELSE "score"
   /\ UNCHANGED <<query, max_results, min_relevancy, expansion_reply, expanded_queries, qi, all_results,
                  preliminary_scores, refine_calls, results_summary, refined_queries, ri,
                  raw_results, final_results, outcome, searches, scoreVars, filterVars,
                  bm25Vars, similarityVars, helperVars>>

\* phase 2: the preliminary scoring and the decision on a refinement.  An
\* exception of score_and_rank is no ImportError: it ends the call in the
\* outer handler.
PreliminaryScoring ==
   /\ pc = "score"
   /\ \E search_result_objects \in {SearchResultObjects(enhanced_results)} :
      \E out \in {score_and_rank(query, search_result_objects, FALSE)} :
         IF out.raised
         THEN /\ pc' = "done"
              /\ outcome' = "error"
              /\ UNCHANGED <<preliminary_scores, raw_results>>
         ELSE \E scores \in {[i \in 1..Len(out.results) |->
                                out.results[i].relevancy_probability]} :
              /\ preliminary_scores' = scores
              /\ outcome' = outcome
              /\ IF RefinementTriggered(AvgRelevancy(scores), Len(enhanced_results),
                                        max_results)
                 THEN pc' = "refine" /\ raw_results' = raw_results
                 ELSE pc' = "final" /\ raw_results' = enhanced_results
   /\ UNCHANGED <<query, max_results, min_relevancy, expansion_reply, expanded_queries, qi, all_results,
                  enhanced_results, refine_calls, results_summary, refined_queries, ri,
                  final_results, searches, scoreVars, filterVars,
                  bm25Vars, similarityVars, helperVars>>

\* phase 3: the call of adaptive_query_refinement with enhanced_results[:10]
\* and preliminary_scores[:10].  A call that raises does so in the
\* construction of the LLM client, before the summary, or in the LLM call,
\* after it.
Refine ==
   /\ pc = "refine"
   /\ refine_calls' = refine_calls + 1
   /\ \E reply \in Replies(MaxRefined) :
         LET queries == adaptive_query_refinement(reply)
         IN  /\ refined_queries' = queries
             /\ \E summarised \in (IF reply.raised THEN BOOLEAN ELSE {TRUE}) :
                   results_summary' =
                      IF summarised
                      THEN ResultsSummary(Take(enhanced_results, 10),
                                          Take(preliminary_scores, 10))
                      ELSE << >>
             /\ IF queries = << >>
                THEN pc' = "final" /\ raw_results' = enhanced_results
                ELSE pc' = "refined_search" /\ raw_results' = raw_results
   /\ ri' = 1
   /\ UNCHANGED <<query, max_results, min_relevancy, expansion_reply, expanded_queries, qi, all_results,
                  enhanced_results, preliminary_scores, final_results, outcome,
                  searches, scoreVars, filterVars,
                  bm25Vars, similarityVars, helperVars>>

\* a phase 3 that keeps the results of its last search only
RefinedSearchReplace ==
   /\ pc = "refined_search"
   /\ \E response \in SearchResponses :
      /\ searches' = Append(searches, SearchCall("refined", refined_queries[ri], response))
      /\ LET refined_results == google_domain_search(response)
             extracted == [i \in 1..Len(refined_results) |->
                             extract_deep_content(refined_results[i])]
         IN  /\ enhanced_results' = extracted
             /\ IF ri < Len(refined_queries)
                THEN pc' = "refined_search" /\ raw_results' = raw_results
                ELSE pc' = "final" /\ raw_results' = extracted
   /\ ri' = ri + 1
   /\ UNCHANGED <<query, max_results, min_relevancy, expansion_reply, expanded_queries, qi, all_results,
                  preliminary_scores, refine_calls, results_summary, refined_queries,
                  final_results, outcome, scoreVars, filterVars,
                  bm25Vars, similarityVars, helperVars>>

\* a phase 3 that goes back to the refinement after its last search
RefinedSearchAgain ==
   /\ pc = "refined_search"
   /\ refine_calls < 3
   /\ \E response \in SearchResponses :
      /\ searches' = Append(searches, SearchCall("refined", refined_queries[ri], response))
      /\ LET refined_results == google_domain_search(response)
             extracted == [i \in 1..Len(refined_results) |->
                             extract_deep_content(refined_results[i])]
         IN  enhanced_results' = enhanced_results \o extracted
   /\ ri' = ri + 1
   /\ pc' = IF ri < Len(refined_queries) THEN "refined_search" ELSE "refine"
   /\ UNCHANGED <<query, max_results, min_relevancy, expansion_reply, expanded_queries, qi, all_results,
                  preliminary_scores, refine_calls, results_summary, refined_queries, raw_results,
                  final_results, outcome, scoreVars, filterVars,
                  bm25Vars, similarityVars, helperVars>>

\* phase 3: the search with one refined query and the deep extraction of
\* its results
RefinedSearch ==
   /\ pc = "refined_search"
   /\ \E response \in SearchResponses :
      /\ searches' = Append(searches, SearchCall("refined", refined_queries[ri], response))
      /\ LET refined_results == google_domain_search(response)
             extracted == [i \in 1..Len(refined_results) |->
                             extract_deep_content(refined_results[i])]
         IN  /\ enhanced_results' = enhanced_results \o extracted
             /\ IF ri < Len(refined_queries)
                THEN pc' = "refined_search" /\ raw_results' = raw_results
                ELSE pc' = "final" /\ raw_results' = enhanced_results \o extracted
   /\ ri' = ri + 1
   /\ UNCHANGED <<query, max_results, min_relevancy, expansion_reply, expanded_queries, qi, all_results,
                  preliminary_scores, refine_calls, results_summary, refined_queries,
                  final_results, outcome, scoreVars, filterVars,
                  bm25Vars, similarityVars, helperVars>>

\* the direct search of a call whose phase 1 found nothing
FallbackSearch ==
   /\ pc = "fallback"
   /\ \E response \in SearchResponses :
      /\ searches' = Append(searches, SearchCall("direct", preprocess_query(query), response))
      /\ raw_results' = google_domain_search(response)
   /\ pc' = "final"
   /\ UNCHANGED <<query, max_results, min_relevancy, expansion_reply, expanded_queries, qi, all_results,
                  enhanced_results, preliminary_scores, refine_calls, results_summary,
                  refined_queries, ri, final_results, outcome,
                  scoreVars, filterVars,
                  bm25Vars, similarityVars, helperVars>>

\* the final processing: conversion, scoring, sort, filter, cut and format
Finalize ==
   /\ pc = "final"
   /\ pc' = "done"
   /\ IF raw_results = << >>
      THEN outcome' = "no_results" /\ final_results' = << >>
      ELSE \E final \in {FinalProcessing(query, raw_results)} :
              /\ final_results' = final
              /\ outcome' = IF final = << >> THEN "no_relevant_results" ELSE "results"
   /\ UNCHANGED <<query, max_results, min_relevancy, expansion_reply, expanded_queries, qi, all_results,
                  enhanced_results, preliminary_scores, refine_calls, results_summary,
                  refined_queries, ri, raw_results, searches, scoreVars, filterVars,
                  bm25Vars, similarityVars, helperVars>>

Next ==
   \/ Expand
   \/ SearchExpanded
   \/ ExtractDeep
   \/ PreliminaryScoring
   \/ Refine
   \/ RefinedSearch
   \/ FallbackSearch
   \/ Finalize

Spec == Init /\ [][Next]_vars

\* ------------------------------------------------------------------------
\* SpecSimilarity: calls of calculate_semantic_similarity
\* ------------------------------------------------------------------------

\* the texts of the calls: some hold only words of one character, which
\* the token_pattern of TfidfVectorizer does not match
SimilarityTexts ==
   { << >>,
     <<"v", "a">>,
     <<"V", "b", "v">>,
     <<"x", "y">>,
     <<"Dogovor", "za", "naem">>,
     <<"dogovor", "za", "prodazhba">>,
     <<"v", "dogovor">> }

\* what the embedding path yields: no cosine (an embedding is None, the
\* norm product is 0 or the call raised) or a cosine in thousandths
EmbeddingOutcomes ==
   { [ok |-> FALSE, value |-> 0],
     [ok |-> TRUE,  value |-> 0 - 400],
     [ok |-> TRUE,  value |-> 820] }

InitSimilarity ==
   /\ ss_pc = "called"
   /\ ss_query \in SimilarityTexts
   /\ ss_document_text \in SimilarityTexts
   /\ ss_client \in BOOLEAN
   /\ ss_embedding \in EmbeddingOutcomes
   /\ ss_path = << >>
   /\ ss_value = 0
   /\ ScoreIdle
   /\ FilterIdle
   /\ SearchIdle
   /\ Bm25Idle
   /\ HelperIdle

\* the embedding path, entered only with a client: it returns the cosine
\* or falls through to the TF-IDF path
EmbeddingPath ==
   /\ ss_pc = "called"
   /\ IF ss_client
      THEN /\ ss_path' = Append(ss_path, "embedding")
           /\ IF ss_embedding.ok
              THEN ss_pc' = "returned" /\ ss_value' = ss_embedding.value
              ELSE ss_pc' = "tfidf" /\ ss_value' = ss_value
      ELSE ss_pc' = "tfidf" /\ ss_path' = ss_path /\ ss_value' = ss_value
   /\ UNCHANGED <<ss_query, ss_document_text, ss_client, ss_embedding,
                  scoreVars, filterVars, searchVars, bm25Vars, helperVars>>

\* a TF-IDF path whose handler runs whether or not fit_transform raised
TfidfPathThenOverlap ==
   /\ ss_pc = "tfidf"
   /\ ss_path' = Append(ss_path, "tfidf")
   /\ ss_pc' = "overlap"
   /\ ss_value' = TfidfSimilarity(ss_query, ss_document_text).value
   /\ UNCHANGED <<ss_query, ss_document_text, ss_client, ss_embedding,
                  scoreVars, filterVars, searchVars, bm25Vars, helperVars>>

\* the TF-IDF path: it returns the cosine of the two rows, or goes to the
\* handler when fit_transform raised
TfidfPath ==
   /\ ss_pc = "tfidf"
   /\ ss_path' = Append(ss_path, "tfidf")
   /\ \E tfidf \in {TfidfSimilarity(ss_query, ss_document_text)} :
         IF tfidf.raised
         THEN ss_pc' = "overlap" /\ ss_value' = ss_value
         ELSE ss_pc' = "returned" /\ ss_value' = tfidf.value
   /\ UNCHANGED <<ss_query, ss_document_text, ss_client, ss_embedding,
                  scoreVars, filterVars, searchVars, bm25Vars, helperVars>>

\* the handler of the TF-IDF path: the word overlap
OverlapPath ==
   /\ ss_pc = "overlap"
   /\ ss_path' = Append(ss_path, "overlap")
   /\ ss_value' = WordOverlap(ss_query, ss_document_text)
   /\ ss_pc' = "returned"
   /\ UNCHANGED <<ss_query, ss_document_text, ss_client, ss_embedding,
                  scoreVars, filterVars, searchVars, bm25Vars, helperVars>>

NextSimilarity ==
   \/ EmbeddingPath
   \/ TfidfPath
   \/ OverlapPath

SpecSimilarity == InitSimilarity /\ [][NextSimilarity]_vars

\* ------------------------------------------------------------------------
\* SpecBm25: calls of calculate_bm25_score
\* ------------------------------------------------------------------------

\* the most calls made with one list of query terms
MaxCalls == 2

\* the query_terms of the calls
Bm25Queries == { <<"zakon">>, <<"Zakon", "sad">> }

\* the avg_doc_length of the calls: 2.0, 2.5, 20.0 and 100.0
Bm25AvgDocLengths ==
   { [num |-> 2, den |-> 1], [num |-> 5, den |-> 2],
     [num |-> 20, den |-> 1], [num |-> 100, den |-> 1] }

\* the document_text of the calls: texts of five and of eight words that
\* hold "zakon" once or five times, and one that holds no query term
Bm25Documents ==
   { <<"zakon", "za", "zadalzheniyata", "i", "dogovorite">>,
     <<"Zakon", "zakon", "zakon", "zakon", "zakon">>,
     <<"zakon", "za", "sobstvenostta", "i", "polzvaneto", "na", "zemedelskite", "zemi">>,
     <<"zakon", "zakon", "ZAKON", "zakon", "zakon", "i", "sad", "sad">>,
     <<"semeen", "kodeks">> }

InitBm25 ==
   /\ bm_query_terms \in Bm25Queries
   /\ bm_avg_doc_length \in Bm25AvgDocLengths
   /\ bm_calls = << >>
   /\ ScoreIdle
   /\ FilterIdle
   /\ SearchIdle
   /\ SimilarityIdle
   /\ HelperIdle

\* one call of calculate_bm25_score
CalculateBm25Score ==
   /\ Len(bm_calls) < MaxCalls
   /\ \E document_text \in Bm25Documents :
      \E out \in {calculate_bm25_score(bm_query_terms, document_text, bm_avg_doc_length)} :
         bm_calls' = Append(bm_calls, [document_text |-> document_text,
                                       raised        |-> out.raised,
                                       score         |-> out.value])
   /\ UNCHANGED <<bm_query_terms, bm_avg_doc_length,
                  scoreVars, filterVars, searchVars, similarityVars, helperVars>>

NextBm25 == CalculateBm25Score

SpecBm25 == InitBm25 /\ [][NextBm25]_vars

\* ------------------------------------------------------------------------
\* SpecHelpers: calls of the helpers of the scorer and of the search tool
\* ------------------------------------------------------------------------

\* the components handed to the combined score: each 0, in between or at
\* (or, for the BM25 score, beyond) the value that normalizes to its maximum
CombinedScoreArgs ==
   [bm25_score             : {0, 10000, 25000},
    semantic_score         : {0, 500, 1000},
    legal_context_score    : {0, 1000},
    domain_authority_score : {0, 1000},
    title_boost            : {0, 500}]

\* the texts handed to identify_legal_domain and to
\* calculate_legal_context_score: civil law with six keywords and with
\* one, administrative law, labour law with a keyword of civil law,
\* procedural law, and two without a keyword
LegalTexts ==
   { <<"obezshtetenie", "dogovor", "sobstvenost", "nasledstvo", "semeystvo", "razvod">>,
     <<"Razvod">>,
     <<"Naredba", "za", "litsenzirane">>,
     <<"trudov", "dogovor", "i", "zaplata">>,
     <<"sadebno", "delo">>,
     <<"struva", "li", "si">>,
     << >> }

\* two calls of calculate_legal_context_score: their arguments
LegalContextCalls ==
   {<<a, b>> : a \in [query : LegalTexts, document_text : LegalTexts],
               b \in [query : LegalTexts, document_text : LegalTexts]}

\* words that hold a key legal term of preprocess_query, the first only
\* once its typo is corrected
KeyTermWords ==
   <<"obeshtetenie", "Zakona", "sadat", "pravoto", "sumata", "raka", "pomosht",
     "nakazanie", "schupvane", "zakon">>

\* words that hold none, the first with a typo
OtherWords ==
   <<"amoga", "koga", "kade", "kak", "dnes", "utre", "mnogo", "malko", "iskam",
     "znaya", "kazhi", "molya", "blagodarya", "zdravey", "vchera", "vinagi",
     "nikoga", "tuk", "tam", "sega">>

\* a query of n words whose odd positions hold the first k key term words
QueryOf(n, k) ==
   [i \in 1..n |-> IF i % 2 = 1 /\ (i + 1) \div 2 <= k
                   THEN KeyTermWords[(i + 1) \div 2] ELSE OtherWords[i]]

\* the queries handed to preprocess_query: of up to 15 words and of more,
\* with no, few and many key terms
PreprocessQueries ==
   {QueryOf(n, k) : n \in {0, 3, 15, 16, 20}, k \in {0, 1, 5, 8, 10}}

InitHelpers ==
   /\ h_pc = "called"
   /\ h_result = << >>
   /\ \/ h_function = "combined_score" /\ h_args \in CombinedScoreArgs
      \/ h_function = "identify_legal_domain" /\ h_args \in LegalTexts
      \/ h_function = "calculate_legal_context_score" /\ h_args \in LegalContextCalls
      \/ h_function = "preprocess_query" /\ h_args \in PreprocessQueries
   /\ ScoreIdle
   /\ FilterIdle
   /\ SearchIdle
   /\ Bm25Idle
   /\ SimilarityIdle

\* the combined score of score_and_rank for the five components
CallCombinedScore ==
   /\ h_pc = "called" /\ h_function = "combined_score"
   /\ h_result' = CombinedScore(h_args.bm25_score, h_args.semantic_score,
                                h_args.legal_context_score,
                                h_args.domain_authority_score, h_args.title_boost)
   /\ h_pc' = "returned"
   /\ UNCHANGED <<h_function, h_args, scoreVars, filterVars, searchVars, bm25Vars,
                  similarityVars>>

\* identify_legal_domain(text)
CallIdentifyLegalDomain ==
   /\ h_pc = "called" /\ h_function = "identify_legal_domain"
   /\ h_result' = identify_legal_domain(h_args)
   /\ h_pc' = "returned"
   /\ UNCHANGED <<h_function, h_args, scoreVars, filterVars, searchVars, bm25Vars,
                  similarityVars>>

\* calculate_legal_context_score(query, document_text), called twice
CallLegalContextScore ==
   /\ h_pc = "called" /\ h_function = "calculate_legal_context_score"
   /\ h_result' = [i \in 1..Len(h_args) |->
                     calculate_legal_context_score(h_args[i].query,
                                                   h_args[i].document_text)]
   /\ h_pc' = "returned"
   /\ UNCHANGED <<h_function, h_args, scoreVars, filterVars, searchVars, bm25Vars,
                  similarityVars>>

\* preprocess_query(query) of the search tool
CallPreprocessQuery ==
   /\ h_pc = "called" /\ h_function = "preprocess_query"
   /\ h_result' = preprocess_query(h_args)
   /\ h_pc' = "returned"
   /\ UNCHANGED <<h_function, h_args, scoreVars, filterVars, searchVars, bm25Vars,
                  similarityVars>>

NextHelpers ==
   \/ CallCombinedScore
   \/ CallIdentifyLegalDomain
   \/ CallLegalContextScore
   \/ CallPreprocessQuery

SpecHelpers == InitHelpers /\ [][NextHelpers]_vars

\* ------------------------------------------------------------------------
\* Properties of score_and_rank (SpecScore)
\* ------------------------------------------------------------------------

\* the fields a result is handed in with
Identity(r) == <<r.url, r.title, r.snippet, r.content>>

Bijections(n) == {p \in [1..n -> 1..n] : \A i, j \in 1..n : p[i] = p[j] => i = j}

\* out is inp rearranged by a bijection p that sends equal scores to
\* increasing input positions
StableRanking(inp, out) ==
   /\ Len(out) = Len(inp)
   /\ \A i \in 1..(Len(out) - 1) : out[i].combined_score >= out[i + 1].combined_score
   /\ \E p \in Bijections(Len(inp)) :
         /\ \A i \in 1..Len(out) : Identity(out[i]) = Identity(inp[p[i]])
         /\ \A i, j \in 1..Len(out) :
               (i < j /\ out[i].combined_score = out[j].combined_score) => p[i] < p[j]

\* C1: a returned score_and_rank list is a permutation of the input list,
\* ordered by non-increasing combined_score, and results of equal
\* combined_score keep their input order.
C1_StableSortedPermutation ==
   sr_pc = "returned" => StableRanking(sr_input, sr_output)

\* C1 witness: a returned list of two different results with equal
\* combined_score, in their input order.
C1_Witness ==
   /\ sr_pc = "returned"
   /\ Len(sr_output) = 2
   /\ sr_output[1].url # sr_output[2].url
   /\ sr_output[1].combined_score = sr_output[2].combined_score
   /\ sr_output[1].url = sr_input[1].url

\* the score bounds of one result
ScoresInRange(r) ==
   /\ 0 <= r.combined_score /\ r.combined_score <= SCALE
   /\ 0 <= r.confidence_score /\ r.confidence_score <= SCALE
   /\ (r.combined_score <= 833 => r.confidence_score >= r.combined_score)

\* C2: every result of a returned score_and_rank list has combined_score
\* and confidence_score in [0, 1], and confidence_score >= combined_score
\* when combined_score <= 0.833, with or without an embedding provider.
C2_ScoresInRange ==
   sr_pc = "returned" => \A i \in 1..Len(sr_output) : ScoresInRange(sr_output[i])

\* C2: a result scored without an embedding provider comes back with a
\* negative combined_score and a confidence_score below it.
C2_NegativeScore ==
   /\ sr_pc = "returned"
   /\ ~openai_client
   /\ \E i \in 1..Len(sr_output) :
         /\ sr_output[i].combined_score < 0
         /\ sr_output[i].confidence_score < sr_output[i].combined_score

\* C3: score_and_rank never ends in an exception, whatever the batch.
C3_NeverRaises == sr_pc # "raised"

\* C3: score_and_rank raises on a batch whose results all have an empty
\* snippet and an empty content.
C3_RaisedOnEmptyBatch ==
   /\ sr_pc = "raised"
   /\ \A i \in 1..Len(sr_input) :
         sr_input[i].snippet = << >> /\ sr_input[i].content = << >>

\* ------------------------------------------------------------------------
\* Properties of the adaptive filter (SpecFilter)
\* ------------------------------------------------------------------------

\* the number of results of s scoring at least threshold
CountAtLeast(s, threshold) ==
   Cardinality({i \in 1..Len(s) : s[i].relevancy_score >= threshold})

\* the first n elements of s, s being sorted by descending score
Top(s, n) == SubSeq(s, 1, Min(n, Len(s)))

\* C4: with at least 10 results scoring >= 0.6 the filter keeps the top 20
\* of those; otherwise with at least 8 scoring >= 0.3 it keeps the top 15
\* of those; otherwise it keeps the top 12 of all results.
C4_FilterBranches ==
   f_pc = "returned" =>
      LET high   == CountAtLeast(f_input, 600)
          medium == CountAtLeast(f_input, 300)
      IN  /\ high >= 10 => f_filtered = Top(f_input, Min(20, high))
          /\ (high < 10 /\ medium >= 8) => f_filtered = Top(f_input, Min(15, medium))
          /\ (high < 10 /\ medium < 8) => f_filtered = Top(f_input, 12)

\* C4 witness: the medium branch cuts a list of more than 15 results
\* scoring >= 0.3, fewer than 10 of them scoring >= 0.6, to 15.
C4_Witness ==
   /\ f_pc = "returned"
   /\ CountAtLeast(f_input, 600) \in 1..9
   /\ CountAtLeast(f_input, 300) > 15
   /\ Len(f_input) > CountAtLeast(f_input, 300)
   /\ Len(f_filtered) = 15

\* C5: the final list has at most 20 results and at least
\* min(15, len(filtered)); 12 results scoring 0.65 are all returned.
C5_FinalSize ==
   f_pc = "returned" =>
      /\ Len(f_output) <= 20
      /\ Len(f_output) >= Min(15, Len(f_filtered))
      /\ (Len(f_input) = 12 /\ \A i \in 1..12 : f_input[i].relevancy_score = 650)
            => f_output = f_input

\* C5 witness: 12 results scoring 0.65 went in and 12 came out.
C5_Witness ==
   /\ f_pc = "returned"
   /\ Len(f_input) = 12
   /\ \A i \in 1..12 : f_input[i].relevancy_score = 650
   /\ Len(f_output) = 12

\* ------------------------------------------------------------------------
\* Properties of enhanced_bulgarian_legal_search (Spec)
\* ------------------------------------------------------------------------

\* the call returned a list of results
ReturnedResults == pc = "done" /\ outcome = "results"

\* C6: no two results of the returned list have the same url.
C6_NoDuplicateUrls ==
   ReturnedResults =>
      \A i, j \in 1..Len(final_results) :
         i # j => final_results[i].url # final_results[j].url

\* C6: a returned list holds the same url twice, found by two searches.
C6_DuplicateReturned ==
   /\ ReturnedResults
   /\ Len(expanded_queries) = 2
   /\ Len(final_results) = 2
   /\ final_results[1].url = final_results[2].url

\* the combined_score that ranked, a list score_and_rank returned, gives
\* to the result f of the final list
CombinedOf(ranked, f) ==
   ranked[CHOOSE k \in 1..Len(ranked) :
             Identity(ranked[k]) = Identity(SearchResultObjects(<<f.metadata>>)[1])
         ].combined_score

\* final is in the order of the combined scores of out, what score_and_rank
\* yields for the accumulated results
InRankedOrder(final, out) ==
   ~out.raised =>
      \A i \in 1..(Len(final) - 1) :
         CombinedOf(out.results, final[i]) >= CombinedOf(out.results, final[i + 1])

\* C7: the returned results are in the order of non-increasing
\* combined_score, as score_and_rank computes it over all accumulated
\* results of the call.
C7_OrderedByCombinedScore ==
   ReturnedResults =>
      InRankedOrder(final_results,
                    score_and_rank(query, SearchResultObjects(raw_results), FALSE))

\* C7: a returned list has the result of lakorda.com before the result of
\* ciela.net with the same title and snippet.
C7_ArrivalOrderReturned ==
   /\ ReturnedResults
   /\ Len(final_results) = 2
   /\ final_results[1].url = "https://lakorda.com/1"
   /\ final_results[2].url = "https://ciela.net/1"
   /\ final_results[1].relevancy_score = final_results[2].relevancy_score

\* C8: adaptive_query_refinement is called at most once in a call.
C8_RefinementAtMostOnce == refine_calls <= 1

\* C8 witness: the call ended after one refinement whose search added a
\* result that keeps the results fewer than 80% of max_results.
C8_Witness ==
   /\ pc = "done"
   /\ refine_calls = 1
   /\ refined_queries # << >>
   /\ Len(enhanced_results) > Min(Len(all_results), max_results)
   /\ 5 * Len(enhanced_results) < 4 * max_results

\* C9: a call whose phase 1 found a result calls the refinement exactly
\* when the average of the preliminary scores is below 0.7 or the
\* extracted results are fewer than 80% of max_results.
C9_RefinementTrigger ==
   (pc = "done" /\ all_results # << >>) =>
      (refine_calls >= 1 <=>
         \/ AvgRelevancy(preliminary_scores) < 700
         \/ 5 * Min(Len(all_results), max_results) < 4 * max_results)

\* C9: a call ended without a refinement although its extracted results
\* were fewer than 80% of max_results.
C9_NoRefinementOnFewResults ==
   /\ pc = "done"
   /\ all_results # << >>
   /\ refine_calls = 0
   /\ 5 * Min(Len(all_results), max_results) < 4 * max_results

\* the expansion yielded no query: the LLM call raised or listed none
NoExpansion == expansion_reply.raised \/ expansion_reply.queries = << >>

\* C10: the expanded queries are never empty; when the expansion raised or
\* yielded no query they are [query], and the call then returns a
\* non-empty list of results when the search with that query found some.
C10_FallbackQuery ==
   /\ pc \notin {"idle", "expand"} => expanded_queries # << >>
   /\ (pc \notin {"idle", "expand"} /\ NoExpansion) => expanded_queries = <<query>>
   /\ (pc = "done" /\ NoExpansion /\ all_results # << >>) =>
         (outcome = "results" /\ final_results # << >>)

\* C10: a call whose expansion raised and whose search with the original
\* query found a result ended with an error message.
C10_ErrorAfterFallback ==
   /\ pc = "done"
   /\ expansion_reply.raised
   /\ expanded_queries = <<query>>
   /\ all_results # << >>
   /\ outcome = "error"

\* the queries of the searches that phase made, in order
QueriesOf(phase) ==
   LET made == SelectSeq(searches, LAMBDA c : c.phase = phase)
   IN  [i \in 1..Len(made) |-> made[i].query]

\* the number of all_results handed to the deep extraction
Submitted == Min(Len(all_results), max_results)

\* the deep extraction of the result failed: process_content raised,
\* answered with its error message, or yielded no text of more than 100
\* characters
FetchFailed(result) ==
   /\ result.href \notin {"", "No URL"}
   /\ LET deep_content == process_content(result.href)
      IN  \/ deep_content.raised
          \/ deep_content.text = ErrorMessage(result.href)
          \/ CharLen(deep_content.text) <= 100

\* a search of phase 1 or 3 failed, or a deep extraction did
SomeFailure ==
   \/ \E i \in 1..Len(searches) : searches[i].failed /\ searches[i].phase # "direct"
   \/ \E i \in 1..Len(enhanced_results) : FetchFailed(enhanced_results[i])

\* the result r is in the returned list
Returned(r) == \E i \in 1..Len(final_results) : final_results[i].url = r.href

\* the result has a url of the provider
Usable(result) == result.href \notin {"", "No URL"}

\* C11: a failed search or a failed deep extraction is skipped: every
\* expanded query and every refined query is searched, every submitted
\* result is extracted, and a call that met a failure returns the results
\* with a url that it gathered.
C11_FailuresSkipped ==
   /\ pc \notin {"idle", "expand", "search"} => QueriesOf("expanded") = expanded_queries
   /\ (pc \in {"final", "done"} /\ refine_calls = 1) => QueriesOf("refined") = refined_queries
   /\ pc \in {"score", "refine", "refined_search", "final"} =>
         /\ Len(enhanced_results) >= Submitted
         /\ \A i \in 1..Submitted : enhanced_results[i].href = all_results[i].href
   /\ (pc = "done" /\ SomeFailure) =>
         \A i \in 1..Len(enhanced_results) :
            Usable(enhanced_results[i]) =>
               outcome = "results" /\ Returned(enhanced_results[i])

\* C11: a call whose only result is one whose page could not be fetched
\* ended with an error message.
C11_ErrorAfterFailedFetch ==
   /\ pc = "done"
   /\ outcome = "error"
   /\ Len(enhanced_results) = 1
   /\ enhanced_results[1].href = "https://ciela.net/2"
   /\ FetchFailed(enhanced_results[1])
   /\ \A i \in 1..Len(searches) : ~searches[i].failed

C13_SnippetKeptOnFetchFailure ==
   /\ \A i \in 1..Len(enhanced_results) :
         FetchFailed(enhanced_results[i]) =>
            enhanced_results[i].enhanced_content = enhanced_results[i].body
   /\ pc = "score" => Len(enhanced_results) = Submitted

\* C13: a result whose page could not be fetched has the error message of
\* process_content as its content.
C13_ErrorMessageAsContent ==
   \E i \in 1..Len(enhanced_results) :
      /\ enhanced_results[i].href = "https://lex.bg/1"
      /\ enhanced_results[i].enhanced_content = ErrorMessage("https://lex.bg/1")
      /\ enhanced_results[i].enhanced_content # enhanced_results[i].body

\* C14: no result without a url of the provider is scored or returned.
C14_OnlyResolvableUrls ==
   /\ preliminary_scores # << >> =>
         \A i \in 1..Len(preliminary_scores) :
            enhanced_results[i].href \notin {"", "No URL"}
   /\ ReturnedResults =>
         \A i \in 1..Len(final_results) :
            final_results[i].url \notin {"", "No URL"}

\* C14: a returned list holds a result whose url is the placeholder of
\* google_cse_search_legal.
C14_PlaceholderReturned ==
   /\ ReturnedResults
   /\ \E i \in 1..Len(final_results) : final_results[i].url = "No URL"

\* C15: a call returns at most max_results results.
C15_AtMostMaxResults == ReturnedResults => Len(final_results) <= max_results

\* C15: a call with max_results = 2 returned three results or more.
C15_MoreThanMaxResults ==
   ReturnedResults /\ max_results = 2 /\ Len(final_results) >= 3

\* C16: every returned result has a relevancy score of at least
\* min_relevancy.
C16_AtLeastMinRelevancy ==
   ReturnedResults =>
      \A i \in 1..Len(final_results) :
         final_results[i].relevancy_score >= min_relevancy

\* C16: a returned list holds the page of apis.bg with a relevancy score
\* of 0, below the min_relevancy of the call.
C16_IrrelevantReturned ==
   /\ ReturnedResults
   /\ min_relevancy > 0
   /\ \E i \in 1..Len(final_results) :
         /\ final_results[i].url = "https://apis.bg/4"
         /\ final_results[i].relevancy_score = 0

\* the results a call is left with: those of its direct search when phase 1
\* found nothing, the extracted ones otherwise
Remaining == IF all_results = << >> THEN raw_results ELSE enhanced_results

\* no result the call is left with has a url of the provider
NothingUsable ==
   \A i \in 1..Len(Remaining) : Remaining[i].href \in {"", "No URL"}

\* C17: the loops of a call are bounded, a call returns results, a
\* no-results message or an error message, and a call left with no result
\* that has a url returns a no-results message.
C17_ReturnsNoResultsMessage ==
   /\ pc = "search" => qi <= Len(expanded_queries)
   /\ pc = "extract" => Len(enhanced_results) < Submitted
   /\ pc = "refined_search" => ri <= Len(refined_queries)
   /\ pc = "done" =>
         outcome \in {"results", "no_results", "no_relevant_results", "error"}
   /\ (pc = "done" /\ NothingUsable) =>
         outcome \in {"no_results", "no_relevant_results"}

\* C17: a call whose only result has no link returned it as a result.
C17_ResultsWithoutUrl ==
   /\ pc = "done"
   /\ NothingUsable
   /\ Remaining # << >>
   /\ outcome = "results"

\* the path was entered
Entered(path) == \E i \in 1..Len(ss_path) : ss_path[i] = path

\* the words query and document share
SharedWords ==
   WordSet(Lower(ss_query)) \cap WordSet(Lower(ss_document_text))

\* C18: a call of calculate_semantic_similarity returns a number, the one
\* of the first path that yields one: the embedding path is entered only
\* with a client, the TF-IDF path only when there is no client or the
\* embedding path yielded no cosine, the word overlap only after the
\* TF-IDF path raised, and the word overlap lies in [0, 1] and is 0 when
\* query and document share no word.
C18_FallbackChain ==
   /\ ss_path \in { << >>, <<"embedding">>, <<"tfidf">>, <<"embedding", "tfidf">>,
                    <<"tfidf", "overlap">>, <<"embedding", "tfidf", "overlap">> }
   /\ Entered("embedding") => ss_client
   /\ Entered("tfidf") => ~ss_client \/ ~ss_embedding.ok
   /\ Entered("overlap") => TfidfSimilarity(ss_query, ss_document_text).raised
   /\ ss_pc = "returned" =>
         /\ ss_value \in Int
         /\ ss_value = calculate_semantic_similarity(ss_query, ss_document_text,
                                                     ss_client, ss_embedding)
   /\ (ss_pc = "returned" /\ Entered("overlap")) =>
         /\ 0 <= ss_value /\ ss_value <= SCALE
         /\ SharedWords = {} => ss_value = 0

\* C18 witness: a call with a client went through all three paths and
\* returned 0 for two texts of one-character words that share none.
C18_Witness ==
   /\ ss_pc = "returned"
   /\ ss_path = <<"embedding", "tfidf", "overlap">>
   /\ ss_query # << >> /\ ss_document_text # << >>
   /\ SharedWords = {}
   /\ ss_value = 0

\* how often the query term occurs in the document of the call
TermFrequency(call, term) == Occurrences(Lower(call.document_text), LowerWord(term))

\* the query terms that occur in the document of the call
TermsFound(call) ==
   SelectSeq(bm_query_terms, LAMBDA term : TermFrequency(call, term) > 0)

\* C19: every call of calculate_bm25_score returns a score of at least 0,
\* and the query terms that do not occur in the document add nothing to it.
C19_Bm25NonNegative ==
   \A i \in 1..Len(bm_calls) :
      /\ ~bm_calls[i].raised
      /\ bm_calls[i].score >= 0
      /\ bm_calls[i].score =
            calculate_bm25_score(TermsFound(bm_calls[i]), bm_calls[i].document_text,
                                 bm_avg_doc_length).value

\* C19: a call returned a score below 0 for a document that holds the
\* query term more often than avg_doc_length.
C19_NegativeBm25 ==
   \E i \in 1..Len(bm_calls) :
      /\ bm_calls[i].score < 0
      /\ \E k \in 1..Len(bm_query_terms) :
            TermFrequency(bm_calls[i], bm_query_terms[k]) * bm_avg_doc_length.den
               > bm_avg_doc_length.num

\* the calls i and j scored, for a single query term, two documents of the
\* same length, the first with the term once and the second with it five
\* times
OnceAndFiveTimes(i, j) ==
   /\ Len(bm_query_terms) = 1
   /\ Len(bm_calls[i].document_text) = Len(bm_calls[j].document_text)
   /\ TermFrequency(bm_calls[i], bm_query_terms[1]) = 1
   /\ TermFrequency(bm_calls[j], bm_query_terms[1]) = 5

\* C20: of two documents of the same length scored for a single query
\* term, the one that holds the term five times scores higher than the one
\* that holds it once, and less than five times as high.
C20_SublinearTermFrequency ==
   \A i, j \in 1..Len(bm_calls) :
      OnceAndFiveTimes(i, j) =>
         /\ bm_calls[j].score > bm_calls[i].score
         /\ bm_calls[j].score < 5 * bm_calls[i].score

\* C20: with avg_doc_length = 20 the document of five words that holds
\* the term five times scored lower than the one that holds it once.
C20_FiveTimesScoresLower ==
   /\ bm_avg_doc_length = [num |-> 20, den |-> 1]
   /\ \E i, j \in 1..Len(bm_calls) :
         /\ OnceAndFiveTimes(i, j)
         /\ Len(bm_calls[i].document_text) = 5
         /\ bm_calls[i].score > 0
         /\ bm_calls[j].score > 0
         /\ bm_calls[j].score < bm_calls[i].score

\* the call of the helper returned
Returns(function) == h_pc = "returned" /\ h_function = function

\* the five components of the combined score with their weights and the
\* values at which their normalized scores are at the maximum
Components ==
   { [name |-> "bm25_score",             weight |-> weight_bm25,             max |-> {10000, 25000}],
     [name |-> "semantic_score",         weight |-> weight_semantic,         max |-> {1000}],
     [name |-> "legal_context_score",    weight |-> weight_legal_context,    max |-> {1000}],
     [name |-> "domain_authority_score", weight |-> weight_domain_authority, max |-> {1000}],
     [name |-> "title_boost",            weight |-> weight_title_boost,      max |-> {500}] }

\* the component c is at its maximum and every other component is 0
OnlyAtMaximum(c) ==
   /\ h_args[c.name] \in c.max
   /\ \A o \in Components : o.name # c.name => h_args[o.name] = 0

\* C21: the five weights sum to 1.0, and the combined score of a result
\* with one component at its maximum and all others 0 is at most the
\* weight of that component.
C21_WeightsBoundCombinedScore ==
   /\ weight_bm25 + weight_semantic + weight_legal_context
         + weight_domain_authority + weight_title_boost = SCALE
   /\ Returns("combined_score") =>
         \A c \in Components : OnlyAtMaximum(c) => h_result <= c.weight

\* C21 witness: a BM25 score of 25, all other components 0, gave the
\* combined score 0.3, the weight of the BM25 component.
C21_Witness ==
   /\ Returns("combined_score")
   /\ h_args.bm25_score = 25000
   /\ \E c \in Components : c.name = "bm25_score" /\ OnlyAtMaximum(c)
   /\ h_result = weight_bm25

\* the domain and the confidence of the query and of the document of the
\* i-th call of calculate_legal_context_score
QueryDomain(i) == identify_legal_domain(h_args[i].query)

DocDomain(i) == identify_legal_domain(h_args[i].document_text)

\* the i-th call had a query of civil law and a document of administrative
\* law
CivilAgainstAdministrative(i) ==
   /\ QueryDomain(i).domain = "grazhdansko_pravo"
   /\ DocDomain(i).domain = "administrativno_pravo"

\* the j-th call had a query and a document of civil law, of the same
\* confidence
BothCivil(j) ==
   /\ QueryDomain(j).domain = "grazhdansko_pravo"
   /\ DocDomain(j).domain = "grazhdansko_pravo"
   /\ QueryDomain(j).confidence = DocDomain(j).confidence

OnlyQueryKnown(i) ==
   QueryDomain(i).domain # "unknown" /\ DocDomain(i).domain = "unknown"

\* only the document of the i-th call has a known domain
OnlyDocKnown(i) ==
   QueryDomain(i).domain = "unknown" /\ DocDomain(i).domain # "unknown"

\* C23: with one side of unknown domain the score is in proportion to the
\* confidence of the other side, higher when the known side is the query
\* than when it is the document with the same confidence, and with both
\* sides unknown it is 0.3.
C23_QueryKnownWeighsMore ==
   Returns("calculate_legal_context_score") =>
      \A i, j \in 1..Len(h_args) :
         /\ OnlyQueryKnown(i) => h_result[i] = Mul(QueryDomain(i).confidence, 400)
         /\ OnlyDocKnown(i) => h_result[i] = Mul(DocDomain(i).confidence, 600)
         /\ (QueryDomain(i).domain = "unknown" /\ DocDomain(i).domain = "unknown") =>
               h_result[i] = 300
         /\ (OnlyQueryKnown(i) /\ OnlyDocKnown(j)
               /\ QueryDomain(i).confidence = DocDomain(j).confidence) =>
               h_result[i] > h_result[j]

\* C23: the text of six civil keywords scored less as the query of a
\* document of unknown domain than as the document of a query of unknown
\* domain.
C23_DocKnownWeighsMore ==
   /\ Returns("calculate_legal_context_score")
   /\ OnlyQueryKnown(1) /\ OnlyDocKnown(2)
   /\ h_args[1].query = h_args[2].document_text
   /\ Len(h_args[1].query) = 6
   /\ h_result[1] < h_result[2]

\* a keyword of some domain occurs in the lowercased text
SomeKeywordIn(text) ==
   \E d \in 1..Len(legal_domains) :
      \E k \in 1..Len(legal_domains[d].keywords) :
         TextContains(Lower(text), legal_domains[d].keywords[k])

\* the score of the domain of that name for the text
ScoreOfDomain(name, text) ==
   LET d == CHOOSE e \in 1..Len(legal_domains) : legal_domains[e].name = name
   IN  DomainScore(Lower(text), legal_domains[d])

\* C24: identify_legal_domain returns unknown with confidence 0 exactly
\* for a text without a keyword of any domain; otherwise it returns a
\* domain of the highest score, with a tenth of that score, at most 1, as
\* its confidence, which is above 0.
C24_DomainOfHighestScore ==
   Returns("identify_legal_domain") =>
      /\ h_result.domain = "unknown" <=> ~SomeKeywordIn(h_args)
      /\ h_result.domain = "unknown" => h_result.confidence = 0
      /\ h_result.domain # "unknown" =>
            /\ \E d \in 1..Len(legal_domains) : legal_domains[d].name = h_result.domain
            /\ \A d \in 1..Len(legal_domains) :
                  DomainScore(Lower(h_args), legal_domains[d])
                     <= ScoreOfDomain(h_result.domain, h_args)
            /\ h_result.confidence = Min(ScoreOfDomain(h_result.domain, h_args) \div 10, SCALE)
            /\ h_result.confidence > 0
      /\ 0 <= h_result.confidence /\ h_result.confidence <= SCALE

\* C24 witness: a text with a keyword of civil law and three of labour law
\* is of labour law.
C24_Witness ==
   /\ Returns("identify_legal_domain")
   /\ h_result.domain = "trudovo_pravo"
   /\ ScoreOfDomain("grazhdansko_pravo", h_args) > 0
   /\ h_result.confidence > 0

\* the word of the query with the typos corrected
Corrected(w) == ApplyCorrections(w, typo_corrections, 1)

\* the corrected word holds a key legal term
HoldsKeyTerm(w) ==
   \E k \in 1..Len(important_words) : Contains(LowerWord(Corrected(w)), important_words[k])

\* the positions of the query whose corrected words hold a key legal term
KeyPositions == {i \in 1..Len(h_args) : HoldsKeyTerm(h_args[i])}

\* the position in the query of the n-th word that holds a key legal term
KeyPosition(n) ==
   CHOOSE i \in KeyPositions : Cardinality({j \in KeyPositions : j <= i}) = n

\* C25: preprocess_query returns a query of more than 15 words with a key
\* legal term as its first 8 corrected words that hold one, in their
\* order, and every other query with each word corrected and in its place.
C25_LongQueryCutToKeyTerms ==
   Returns("preprocess_query") =>
      IF Len(h_args) > 15 /\ KeyPositions # {}
      THEN /\ Len(h_result) = Min(Cardinality(KeyPositions), 8)
           /\ \A n \in 1..Len(h_result) : h_result[n] = Corrected(h_args[KeyPosition(n)])
      ELSE /\ Len(h_result) = Len(h_args)
           /\ \A i \in 1..Len(h_args) : h_result[i] = Corrected(h_args[i])

\* C25 witness: a query of 20 words, 10 of them with a key legal term, came
\* back as the first 8 of these, the first with its typo corrected.
C25_Witness ==
   /\ Returns("preprocess_query")
   /\ Len(h_args) = 20
   /\ Cardinality(KeyPositions) = 10
   /\ Len(h_result) = 8
   /\ h_args[1] = "obeshtetenie" /\ h_result[1] = "obezshtetenie"
   /\ h_result[8] = "nakazanie"

\* the title boost of the returned result r for the query of the call
BoostOf(r) == TitleBoost(scorer_preprocess_query(sr_query), r.title)

\* the returned results r and o differ in no component but the title boost
SameButTitle(r, o) ==
   /\ r.bm25_score = o.bm25_score
   /\ r.semantic_score = o.semantic_score
   /\ r.legal_context_score = o.legal_context_score
   /\ r.domain_authority_score = o.domain_authority_score

\* C26: every returned result carries its title boost, 0.1 per query term
\* in its lowercased title and at most 0.5, and of two returned results
\* that differ in no other component the one with the higher title boost
\* comes first.
C26_TitleBoostRecorded ==
   sr_pc = "returned" =>
      /\ \A i \in 1..Len(sr_output) :
            sr_output[i].title_relevance = BoostOf(sr_output[i])
      /\ \A i, j \in 1..Len(sr_output) :
            (SameButTitle(sr_output[i], sr_output[j])
               /\ BoostOf(sr_output[i]) > BoostOf(sr_output[j])) => i < j

\* C26: of two returned results that differ only in the title boost, the
\* one with the query term in its title came first, and neither carries
\* its title boost.
C26_TitleBoostNotRecorded ==
   /\ sr_pc = "returned"
   /\ Len(sr_output) = 2
   /\ SameButTitle(sr_output[1], sr_output[2])
   /\ sr_output[1].url = "https://vks.bg/7" /\ sr_output[2].url = "https://vks.bg/6"
   /\ sr_input[1].url = "https://vks.bg/6"
   /\ BoostOf(sr_output[1]) = 100 /\ BoostOf(sr_output[2]) = 0
   /\ sr_output[1].title_relevance = 0

\* C27: score_and_rank returns the empty list for an empty batch, whatever
\* the query, and the adaptive filter turns an empty list into an empty
\* list.
C27_EmptyInEmptyOut ==
   /\ (sr_pc # "called" /\ sr_input = << >>) =>
         sr_pc = "returned" /\ sr_output = << >>
   /\ (f_pc # "called" /\ f_input = << >>) =>
         f_pc = "returned" /\ f_filtered = << >> /\ f_output = << >>

\* C27 witness: the call with an empty batch and the run on an empty list
\* have both returned the empty list.
C27_Witness ==
   /\ sr_pc = "returned" /\ sr_query # << >> /\ sr_input = << >> /\ sr_output = << >>
   /\ f_pc = "returned" /\ f_input = << >> /\ f_output = << >>

\* the ranking of the preliminary scoring: score_and_rank on the results
\* that the deep-fetch phase had accumulated
PreliminaryRanking ==
   score_and_rank(query,
                  SearchResultObjects(Take(enhanced_results, Len(preliminary_scores))),
                  FALSE).results

\* the entries of a ranking that stand for a result
RankedAs(ranking, result) ==
   {k \in 1..Len(ranking) :
      /\ ranking[k].url = result.href
      /\ ranking[k].title = result.title
      /\ ranking[k].snippet = result.body}

\* C28: every pair of the refinement's sample holds a result and the
\* combined_score that the preliminary scoring gave that result, and the
\* sample holds the results of the highest scores.
C28_SampleScoresAreOwn ==
   results_summary # << >> =>
      LET ranking == PreliminaryRanking
          sampled == UNION {RankedAs(ranking, results_summary[j].result) :
                              j \in 1..Len(results_summary)}
      IN  /\ \A i \in 1..Len(results_summary) :
                \E k \in RankedAs(ranking, results_summary[i].result) :
                   ranking[k].combined_score = results_summary[i].score
          /\ \A k \in 1..Len(ranking) : \A m \in sampled :
                k \notin sampled => ranking[m].combined_score >= ranking[k].combined_score

\* C28 reached: the sample pairs the result that arrived first with the
\* score of the other result, which the preliminary scoring ranked first.
C28_ScoreOfAnotherResult ==
   /\ Len(results_summary) = 2
   /\ results_summary[1].score > results_summary[2].score
   /\ LET ranking == PreliminaryRanking
      IN  /\ ranking[1].url = results_summary[2].result.href
          /\ ranking[2].url = results_summary[1].result.href
          /\ results_summary[1].score = ranking[1].combined_score
          /\ results_summary[2].score = ranking[2].combined_score

\* a step of the refinement round only appends to the accumulated list
RoundAppends ==
   pc \in {"refine", "refined_search"} =>
      /\ Len(enhanced_results') >= Len(enhanced_results)
      /\ SubSeq(enhanced_results', 1, Len(enhanced_results)) = enhanced_results
      /\ (pc' = "final" => raw_results' = enhanced_results')

\* C29: a step of the refinement round (the call of the refinement and each
\* refined search) leaves every result accumulated so far in the accumulated
\* list, unchanged and at its place: the list only grows at its end.  What
\* the round hands to the final processing is that list.
C29_RefinementOnlyAppends == [][RoundAppends]_vars

\* C29 witness: the round is over, a refined search has added results after
\* those of the deep-fetch phase, and these are still the first of the list.
C29_Witness ==
   /\ pc = "final" /\ refine_calls = 1 /\ refined_queries # << >>
   /\ preliminary_scores # << >>
   /\ Len(enhanced_results) > Len(preliminary_scores)
   /\ \A i \in 1..Len(preliminary_scores) :
         enhanced_results[i] = extract_deep_content(all_results[i])
   /\ raw_results = enhanced_results

\* C30: the final list of the adaptive filter is a beginning of its sorted
\* input: it leaves out no result ranked above one it returns, keeps the
\* order, and is not empty unless the input is, also when every score is
\* below 0.3.
C30_OutputIsPrefix ==
   f_pc = "returned" =>
      /\ Len(f_output) <= Len(f_input)
      /\ f_output = SubSeq(f_input, 1, Len(f_output))
      /\ f_input # << >> => f_output # << >>

\* C30 witness: three results scoring below 0.3 went in and all three came
\* out, in their order.
C30_Witness ==
   /\ f_pc = "returned"
   /\ Len(f_input) = 3
   /\ \A i \in 1..3 : f_input[i].relevancy_score < 300
   /\ f_output = f_input

====
